---- MODULE Spec2Model ----
(***************************************************************************)
(* Orchestrator core of the E-commerce AI Employee                         *)
(* (src/watchers/orchestrator.py): WatcherManager, FolderRouter,           *)
(* Scheduler and the main loop, with the audit log they all write.         *)
(*                                                                         *)
(* Every handler is one action.  What the environment decides during a     *)
(* handler (a Popen that raises, an audit write that raises, the order of  *)
(* a directory listing, a renderer's exit status) is an input of the       *)
(* action, drawn with \E.                                                  *)
(***************************************************************************)
EXTENDS Integers, Sequences, FiniteSets, TLC

\* ---------------------------------------------------------------- bounds
MaxProcs == 4            \* processes launched by one WatcherManager
MaxAudit == 6            \* entries in the day partition of the audit log
MaxIter == 2             \* iterations of the loop of main() in one run
MaxEnv == 2              \* things the environment does: process exits, changes of
                         \* Needs_Action, calls that fail
MaxRuns == 2             \* runs of the orchestrator process
MaxDay == 7              \* the clock stops when this day begins (day 0 is the first)
MinPerHour == 2          \* clock minutes in an hour (60 on a real clock)
MaxAppends == 1          \* write_audit_log calls of one process on one day partition
TicksPerSec == 2         \* readings of the clock within one second
MaxClock == 4            \* the watchers' clock stops at this reading
MaxRetries == 3          \* largest max_retries a watcher is constructed with
SecsPerDay == 2          \* seconds in a day of the watchers' clock (86400 on a real one)
MaxPolls == 2            \* iterations of run() of the Gmail watcher
MaxStops == 1            \* times the Gmail watcher process ends and is started again
MaxFaults == 2           \* calls of the Gmail watcher that raise

\* ------------------------------------------------------- program constants
\* SCRIPTS, in dict (insertion) order
NameOrder == <<"gmail_watcher", "orders_watcher", "approval_watcher">>
Names == {NameOrder[i] : i \in 1..Len(NameOrder)}

\* an environment variable that is not set, a flag that is not given
NoValue == "<none>"

\* the default of os.getenv("VAULT_PATH", ...), line 36
DefaultVault == "E:/AI_Employee_Vault"

DAILY_BRIEFING_HOUR == 20
WEEKLY_CEO_DAY == 6

ExitCodes == {0, 1}      \* return codes an exited watcher can show

\* file names are sequences of characters
Str_EMAIL == <<"E", "M", "A", "I", "L", "_">>
Str_ORDERS == <<"O", "R", "D", "E", "R", "S", "_">>
Str_NEW_ORDERS == <<"N", "E", "W", "_", "O", "R", "D", "E", "R", "S", "_">>
Str_LINKEDIN == <<"L", "I", "N", "K", "E", "D", "I", "N", "_">>
Str_PLAN == <<"P", "L", "A", "N", "_">>

F_ORDER == <<"O", "R", "D", "E", "R", "_", "2", "0", "2", "6", "-", "0", "1", "-", "0", "1", ".", "m", "d">>
F_MSG == <<"M", "S", "G", "_", "2", "0", "2", "6", "-", "0", "1", "-", "0", "1", ".", "m", "d">>
F_ORDERS == <<"O", "R", "D", "E", "R", "S", "_", "2", "0", "2", "6", "-", "0", "1", "-", "0", "1", ".", "m", "d">>
F_EMAIL == <<"E", "M", "A", "I", "L", "_", "2", "0", "2", "6", "-", "0", "1", "-", "0", "1", ".", "m", "d">>

\* the names that can turn up in Needs_Action
FileNames == {F_ORDER, F_MSG, F_ORDERS, F_EMAIL}

VARIABLES
    pc,              \* position of main(): start, health, scan, tick, sleep, stopping
                     \* (KeyboardInterrupt caught, line 369), or how it ended: stopped
                     \* (after an interrupt), failed (an exception during the startup),
                     \* died (an exception out of the loop or out of the except block)
    dry_run,         \* args.dry_run
    no_watchers,     \* args.no_watchers
    interrupted,     \* a KeyboardInterrupt has been delivered to main()
    script_exists,   \* Path(script).exists() for every entry of SCRIPTS
    processes,       \* WatcherManager.processes: name -> pid, 0 when the key is absent
    procs,           \* the OS processes launched so far, pid = index
    audit,           \* the entries of the day partition Logs/YYYY-MM-DD.json
    effects,         \* what the handler that ran last did, in program order
    iterations,      \* iterations of the loop begun by this run: the check_health
                     \* calls made so far, unless --no-watchers
    always_exited,   \* name -> its handle was found exited by every check_health so far
    popen_calls,     \* name -> subprocess.Popen calls made for it so far
    inbox_exists,    \* NEEDS_ACTION.exists()
    inbox,           \* file name -> "absent", "file" or "dir": the entries of Needs_Action
    seen_files,      \* FolderRouter.seen_files
    seen_disk,       \* Logs/orchestrator_seen_files.json
    last_scan,       \* what the last scan() of this run saw and did
    env_events,      \* things the environment has done so far
    runs,            \* runs of the orchestrator started so far
    now,             \* datetime.now(): [day, hour, min], day counted from the first day
    weekday0,        \* weekday() of day 0
    last_daily,      \* Scheduler._last_daily, a day or NoDate for ""
    last_ceo,        \* Scheduler._last_ceo
    briefings_dir,   \* the directory Briefings exists
    briefings,       \* the days whose <date>_Monday_Briefing.md has been written
    fired,           \* the triggers fired so far: [job, run, day, hour, min]
    all_ticks,       \* this run began with day 0 and has ticked in every minute since
    log_file,        \* Logs/YYYY-MM-DD.json as the processes that share it find it:
                     \* [kind, entries]
    appender,        \* process -> its write_audit_log call: position, locals, and
                     \* what its last finished call saw and left
    log_hist,        \* the partition at the start, the entries of the calls that
                     \* returned, and whether every call so far ran on its own
    wclock,          \* datetime.now() as the watchers read it, in clock readings
    task,            \* the watchers' work on Needs_Action: the files they have
                     \* written there, the events and messages they have handled,
                     \* and every item they have materialised with its name
    stamp,           \* write_audit_log by the clock: the date each process has
                     \* taken for its partition, and the entries in the partitions
    retry,           \* one _check_with_retry call of a watcher: its parameters, its
                     \* position, and what it has done so far in program order
    gw,              \* the Gmail watcher process: its flags, its mailbox, the file
                     \* gmail_processed_ids.json, its place in run(), the events of
                     \* the iteration in program order, and its audit entries
    vault_env,       \* os.getenv("VAULT_PATH") of the orchestrator, or NoValue
    vault_flag       \* the value given with --vault, or NoValue

\* line 36: VAULT_PATH is set when the module is loaded, from the environment
VAULT_PATH == IF vault_env = NoValue THEN DefaultVault ELSE vault_env

\* Path / name
Join(root, name) == [root |-> root, name |-> name]

\* lines 47-48, and line 157
LOGS_DIR == Join(VAULT_PATH, "Logs")
NEEDS_ACTION == Join(VAULT_PATH, "Needs_Action")
_seen_file == Join(LOGS_DIR, "orchestrator_seen_files.json")

\* line 105: the VAULT_PATH of the environment given to a launched watcher
Popen_env_VAULT_PATH == VAULT_PATH

\* lines 331-332: args.vault, whose default is str(VAULT_PATH)
args_vault == IF vault_flag = NoValue THEN VAULT_PATH ELSE vault_flag

wm_vars == <<script_exists, processes, procs, iterations, always_exited, popen_calls>>

fr_vars == <<inbox_exists, inbox, seen_files, seen_disk, last_scan>>

sch_vars == <<now, weekday0, last_daily, last_ceo, briefings_dir, briefings, fired, all_ticks>>

log_vars == <<log_file, appender, log_hist>>

watcher_vars == <<wclock, task, stamp, retry, gw>>

cli_vars == <<vault_env, vault_flag>>

\* the orchestrator process
Orch == <<pc, dry_run, no_watchers, interrupted, audit, effects, runs, env_events,
          wm_vars, fr_vars, sch_vars, cli_vars>>

\* everything but the day partition and its writers
Frame == <<Orch, watcher_vars>>

vars == <<Orch, log_vars, watcher_vars>>

\* ------------------------------------------------------------- audit log
\* the dict write_audit_log builds (timestamp left out, actor is constant)
Entry(action_type, target, result, extra) ==
    [action_type |-> action_type, actor |-> "Orchestrator",
     target |-> target, result |-> result, extra |-> extra]

NoExtra == [none |-> TRUE]

Ev(ev, target, info) == [ev |-> ev, target |-> target, info |-> info]

\* write_audit_log: read the partition, append, rewrite it.  ok = FALSE is
\* a call in which the read or the write raises (OSError and the like);
\* nothing is written then and the exception goes to the caller.
write_audit_log(st, entry, ok) ==
    IF ok
    THEN [st EXCEPT !.audit = Append(@, entry),
                    !.effects = Append(@, Ev("audit", entry.target, entry.action_type))]
    ELSE [st EXCEPT !.raised = TRUE,
                    !.effects = Append(@, Ev("audit_raise", entry.target, entry.action_type))]

\* ---------------------------------------------------------- WatcherManager
\* what the environment decides during one start_watcher call:
\*   popen: subprocess.Popen returns a process (FALSE: it raises)
\*   w1:    the write of watcher_started succeeds
\*   w2:    the write of watcher_start_failed succeeds
StartOutcomes ==
    { [popen |-> TRUE,  w1 |-> TRUE,  w2 |-> TRUE],
      [popen |-> TRUE,  w1 |-> FALSE, w2 |-> TRUE],
      [popen |-> TRUE,  w1 |-> FALSE, w2 |-> FALSE],
      [popen |-> FALSE, w1 |-> TRUE,  w2 |-> TRUE],
      [popen |-> FALSE, w1 |-> TRUE,  w2 |-> FALSE] }

\* a start_watcher that only logs a failed launch and writes no audit entry
start_watcher_quiet(st, name, o) ==
    IF dry_run THEN st
    ELSE LET called == [st EXCEPT !.popen_calls[name] = @ + 1] IN
         IF o.popen
         THEN LET pid == Len(st.procs) + 1
                  s1 == [called EXCEPT
                            !.procs = Append(@, [name |-> name, run |-> runs, alive |-> TRUE,
                                                 returncode |-> 0, signalled |-> FALSE]),
                            !.processes[name] = pid,
                            !.effects = Append(@, Ev("popen_ok", name, ""))]
                  s2 == write_audit_log(s1,
                            Entry("watcher_started", name, "success", [pid |-> pid]), o.w1)
              IN  [s2 EXCEPT !.raised = FALSE]
         ELSE [called EXCEPT !.effects = Append(@, Ev("popen_fail", name, ""))]

NewProc(name) ==
    [name |-> name, run |-> runs, alive |-> TRUE, returncode |-> 0, signalled |-> FALSE]

\* a start_watcher that drops the handle of a watcher it could not launch
start_watcher_forget(st, name, o) ==
    IF dry_run THEN st
    ELSE LET called == [st EXCEPT !.popen_calls[name] = @ + 1] IN
         IF o.popen
         THEN LET pid == Len(st.procs) + 1
                  s1 == [called EXCEPT
                            !.procs = Append(@, NewProc(name)),
                            !.processes[name] = pid,
                            !.effects = Append(@, Ev("popen_ok", name, ""))]
                  s2 == write_audit_log(s1,
                            Entry("watcher_started", name, "success", [pid |-> pid]), o.w1)
              IN  IF ~s2.raised THEN s2
                  ELSE write_audit_log([s2 EXCEPT !.raised = FALSE],
                            Entry("watcher_start_failed", name, "error", [error |-> "audit"]), o.w2)
         ELSE LET s1 == [called EXCEPT !.processes[name] = 0,
                                       !.effects = Append(@, Ev("popen_fail", name, ""))]
              IN  write_audit_log(s1,
                       Entry("watcher_start_failed", name, "error", [error |-> "popen"]), o.w2)

start_watcher(st, name, o) ==
    IF dry_run THEN st
    ELSE LET called == [st EXCEPT !.popen_calls[name] = @ + 1] IN
         IF o.popen
         THEN LET pid == Len(st.procs) + 1
                  s1 == [called EXCEPT
                            !.procs = Append(@, NewProc(name)),
                            !.processes[name] = pid,
                            !.effects = Append(@, Ev("popen_ok", name, ""))]
                  s2 == write_audit_log(s1,
                            Entry("watcher_started", name, "success", [pid |-> pid]), o.w1)
              IN  IF ~s2.raised THEN s2
                  ELSE \* except Exception
                       write_audit_log([s2 EXCEPT !.raised = FALSE],
                            Entry("watcher_start_failed", name, "error", [error |-> "audit"]), o.w2)
         ELSE LET s1 == [called EXCEPT !.effects = Append(@, Ev("popen_fail", name, ""))]
              IN  write_audit_log(s1,
                       Entry("watcher_start_failed", name, "error", [error |-> "popen"]), o.w2)

\* start_all, from entry i of SCRIPTS on; os gives the outcome of each start
RECURSIVE start_all_from(_, _, _)
start_all_from(st, i, os) ==
    IF i > Len(NameOrder) \/ st.raised THEN st
    ELSE LET name == NameOrder[i] IN
         IF script_exists[name]
         THEN start_all_from(start_watcher(st, name, os[name]), i + 1, os)
         ELSE start_all_from([st EXCEPT !.effects = Append(@, Ev("skip", name, ""))], i + 1, os)

start_all(st, os) == start_all_from(st, 1, os)

\* a poll() that reports every process as exited
Exited_always(ps, pid) == TRUE

\* proc.poll() is not None
Exited(ps, pid) == ~ps[pid].alive

\* a check_health that gives up on a watcher after its first restart
health_step_capped(st, name, pid, o) ==
    IF ~st.procs[pid].alive /\ st.popen_calls[name] < 2
    THEN LET s1 == write_audit_log(st,
                     Entry("watcher_crashed", name, "restarting",
                           [exit_code |-> st.procs[pid].returncode]), o.wc)
         IN  IF s1.raised THEN s1 ELSE start_watcher(s1, name, o.start)
    ELSE st

\* one turn of the loop of check_health for name, whose handle is pid.
\* o.wc: the write of watcher_crashed succeeds; o.start: the restart
health_step(st, name, pid, o) ==
    IF Exited(st.procs, pid)
    THEN LET s1 == write_audit_log(st,
                     Entry("watcher_crashed", name, "restarting",
                           [exit_code |-> st.procs[pid].returncode]), o.wc)
         IN  IF s1.raised THEN s1 ELSE start_watcher(s1, name, o.start)
    ELSE st

\* check_health iterates over list(self.processes.items()): the handles as
\* they were when the pass began (snap), in dict order
RECURSIVE check_health_from(_, _, _, _)
check_health_from(st, snap, i, os) ==
    IF i > Len(NameOrder) \/ st.raised THEN st
    ELSE LET name == NameOrder[i] IN
         IF snap[name] # 0
         THEN check_health_from(health_step(st, name, snap[name], os[name]), snap, i + 1, os)
         ELSE check_health_from(st, snap, i + 1, os)

check_health(st, os) == check_health_from(st, st.processes, 1, os)

HealthOutcomes == [wc : BOOLEAN, start : StartOutcomes]

\* check_health in which KeyboardInterrupt is raised as the loop reaches
\* entry k of its list
check_health_interrupted(st, k, os) ==
    LET snap == [n \in Names |->
                    IF \E i \in 1..(k - 1) : NameOrder[i] = n THEN st.processes[n] ELSE 0]
        s1 == check_health_from(st, snap, 1, os)
    IN  [s1 EXCEPT !.effects = Append(@, Ev("KeyboardInterrupt", "check_health", ""))]

\* stop_all: terminate() every handle, then clear the dict
RECURSIVE stop_all_from(_, _)
stop_all_from(st, i) ==
    IF i > Len(NameOrder) THEN [st EXCEPT !.processes = [n \in Names |-> 0]]
    ELSE LET name == NameOrder[i]
             pid == st.processes[name]
         IN  IF pid # 0
             THEN stop_all_from([st EXCEPT
                      !.procs[pid].signalled = TRUE,
                      !.effects = Append(@, Ev("terminate", name, ""))], i + 1)
             ELSE stop_all_from(st, i + 1)

\* a stop_all that clears the dict and signals nothing
stop_all_silent(st) == [st EXCEPT !.processes = [n \in Names |-> 0]]

stop_all(st) == stop_all_from(st, 1)

\* ------------------------------------------------------------ FolderRouter
\* str.startswith
StartsWith(s, p) == Len(s) >= Len(p) /\ SubSeq(s, 1, Len(p)) = p

\* a table whose order prefix is ORDER_
_route_order(filename) ==
    IF StartsWith(filename, Str_EMAIL) THEN "email-responder"
    ELSE IF StartsWith(filename, <<"O", "R", "D", "E", "R", "_">>) \/ StartsWith(filename, Str_NEW_ORDERS)
         THEN "order-reader"
    ELSE IF StartsWith(filename, Str_LINKEDIN) THEN "linkedin-poster"
    ELSE IF StartsWith(filename, Str_PLAN) THEN "plan-creator"
    ELSE "unknown"

\* a table that knows the exported order files only
_route_exported(filename) ==
    IF StartsWith(filename, Str_EMAIL) THEN "email-responder"
    ELSE IF StartsWith(filename, Str_ORDERS) THEN "order-reader"
    ELSE IF StartsWith(filename, Str_LINKEDIN) THEN "linkedin-poster"
    ELSE IF StartsWith(filename, Str_PLAN) THEN "plan-creator"
    ELSE "unknown"

_route(filename) ==
    IF StartsWith(filename, Str_EMAIL) THEN "email-responder"
    ELSE IF StartsWith(filename, Str_ORDERS) \/ StartsWith(filename, Str_NEW_ORDERS)
         THEN "order-reader"
    ELSE IF StartsWith(filename, Str_LINKEDIN) THEN "linkedin-poster"
    ELSE IF StartsWith(filename, Str_PLAN) THEN "plan-creator"
    ELSE "unknown"

NoSeenFile == [kind |-> "absent", names |-> {}]

\* orchestrator_seen_files.json with text that json.loads rejects, or with
\* bytes that read_text cannot decode
BadSeenFiles == {[kind |-> "text", names |-> {}], [kind |-> "binary", names |-> {}]}

\* a constructor that does not read the persisted set
_load_seen_fresh(disk) == {}

\* _load_seen: the set the constructor ends with
_load_seen(disk) == IF disk.kind = "list" THEN disk.names ELSE {}

\* a flush that leaves a file that is there alone
_save_seen_keep(st, ok) ==
    IF st.seen_disk.kind # "absent" THEN st
    ELSE [st EXCEPT !.seen_disk = [kind |-> "list", names |-> st.seen_files],
                    !.effects = Append(@, Ev("save_seen", "", ""))]

\* a flush that keeps only the names whose files are still in Needs_Action
_save_seen_listed(st, ok) ==
    IF ok
    THEN [st EXCEPT !.seen_files = {n \in @ : inbox[n] # "absent"},
                    !.seen_disk = [kind |-> "list",
                                   names |-> {n \in st.seen_files : inbox[n] # "absent"}],
                    !.effects = Append(@, Ev("save_seen", "", ""))]
    ELSE [st EXCEPT !.raised = TRUE,
                    !.effects = Append(@, Ev("save_seen_raise", "", ""))]

\* _save_seen; ok = FALSE: write_text raises and the file stays as it was
_save_seen(st, ok) ==
    IF ok
    THEN [st EXCEPT !.seen_disk = [kind |-> "list", names |-> st.seen_files],
                    !.effects = Append(@, Ev("save_seen", "", ""))]
    ELSE [st EXCEPT !.raised = TRUE,
                    !.effects = Append(@, Ev("save_seen_raise", "", ""))]

\* a loop body that does not ask whether the entry is a regular file
scan_entry_any(st, name, is_file, ok) ==
    IF name \in st.seen_files THEN st
    ELSE LET s1 == write_audit_log(st,
                      Entry("file_detected", name, "routed", [skill |-> _route(name)]), ok)
         IN  IF s1.raised THEN s1
             ELSE [s1 EXCEPT !.seen_files = @ \cup {name}]

\* a loop body that routes an entry and does not remember it
scan_entry_forgetful(st, name, is_file, ok) ==
    IF name \in st.seen_files \/ ~is_file THEN st
    ELSE write_audit_log(st,
            Entry("file_detected", name, "routed", [skill |-> _route(name)]), ok)

\* the body of the loop of scan() for one directory entry
scan_entry(st, name, is_file, ok) ==
    IF name \in st.seen_files \/ ~is_file THEN st
    ELSE LET skill == _route(name)
             s1 == write_audit_log(st,
                      Entry("file_detected", name, "routed", [skill |-> skill]), ok)
         IN  IF s1.raised THEN s1
             ELSE [s1 EXCEPT !.seen_files = @ \cup {name}]

\* the loop of scan() over the listing order, from its entry i on;
\* fail_at is the entry at which write_audit_log raises, if it is called
RECURSIVE scan_from(_, _, _, _)
scan_from(st, order, i, fail_at) ==
    IF i > Len(order) \/ st.raised THEN st
    ELSE scan_from(scan_entry(st, order[i], inbox[order[i]] = "file", i # fail_at),
                   order, i + 1, fail_at)

scan(st, order, fail_at, save_ok) ==
    IF ~inbox_exists THEN st
    ELSE LET s1 == scan_from(st, order, 1, fail_at)
         IN  IF s1.raised THEN s1 ELSE _save_seen(s1, save_ok)

\* scan() in which KeyboardInterrupt is raised as the loop reaches entry k of
\* the listing (k = Len(order) + 1: as it reaches _save_seen)
scan_interrupted(st, order, k) ==
    LET s1 == scan_from(st, SubSeq(order, 1, k - 1), 1, 0)
    IN  [s1 EXCEPT !.effects = Append(@, Ev("KeyboardInterrupt", "scan", ""))]

\* the orders NEEDS_ACTION.iterdir() can list the directory in
Listing == {n \in FileNames : inbox[n] # "absent"}
Orders(S) == {o \in [1..Cardinality(S) -> S] : \A i, j \in DOMAIN o : i # j => o[i] # o[j]}

\* --------------------------------------------------------------- Scheduler
NoDate == -1

\* _today(): the date of now, as the number of its day
_today == now.day

\* datetime.now().weekday(), 0 = Monday
Weekday == (weekday0 + now.day) % 7

\* a daily trigger without the once-a-day guard
_should_run_daily_unguarded(st) == now.hour = DAILY_BRIEFING_HOUR

_should_run_daily(st) ==
    now.hour = DAILY_BRIEFING_HOUR /\ st.last_daily # _today

_should_run_ceo(st) ==
    Weekday = WEEKLY_CEO_DAY /\ now.hour = DAILY_BRIEFING_HOUR /\ st.last_ceo # _today

\* a scheduler that finds its markers where the last process left them
Scheduler_init_persisted(st) == st

\* Scheduler.__init__: both markers start as ""
Scheduler_init(st) == [st EXCEPT !.last_daily = NoDate, !.last_ceo = NoDate]

Fire(st, job) ==
    [st EXCEPT !.fired = Append(@, [job |-> job, run |-> runs, day |-> now.day,
                                    hour |-> now.hour, min |-> now.min]),
               !.effects = Append(@, Ev("fire", job, ""))]

\* what the environment decides during run_daily_briefing:
\*   run: "zero", "nonzero" (exit status of daily_summary.py) or "raise"
\*        (subprocess.run raises: the launch fails or the 120 s timeout expires)
\*   w:   the write of the daily_briefing entry succeeds
DailyOutcomes == [run : {"zero", "nonzero", "raise"}, w : BOOLEAN]

\* a daily job that runs the renderer in dry-run too
run_daily_briefing_live(st, o) ==
    LET s0 == Fire(st, "daily")
        s1 == [s0 EXCEPT !.effects = Append(@, Ev("subprocess_run", "daily_summary.py", o.run))]
    IN  [s1 EXCEPT !.last_daily = _today]

run_daily_briefing(st, o) ==
    LET s0 == Fire(st, "daily") IN
    IF dry_run THEN [s0 EXCEPT !.last_daily = _today]
    ELSE LET s1 == [s0 EXCEPT !.effects = Append(@, Ev("subprocess_run", "daily_summary.py", o.run))]
             s2 == IF o.run = "raise" THEN s1
                   ELSE write_audit_log(s1,
                           Entry("daily_briefing", "daily_summary.py",
                                 IF o.run = "zero" THEN "success" ELSE "error", NoExtra), o.w)
         IN  \* except Exception: whatever was raised in the try block ends here
             [s2 EXCEPT !.raised = FALSE, !.last_daily = _today]

\* what the environment decides during run_ceo_briefing:
\*   mkdir: briefings_dir.mkdir(exist_ok=True) succeeds
\*   write: briefing_file.write_text succeeds
\*   w:     the write of the ceo_briefing entry succeeds
CeoOutcomes == [mkdir : BOOLEAN, write : BOOLEAN, w : BOOLEAN]

run_ceo_briefing(st, o) ==
    LET s0 == Fire(st, "ceo") IN
    IF ~o.mkdir THEN [s0 EXCEPT !.raised = TRUE, !.effects = Append(@, Ev("mkdir_raise", "Briefings", ""))]
    ELSE LET s1 == [s0 EXCEPT !.briefings_dir = TRUE] IN
         IF dry_run THEN [s1 EXCEPT !.last_ceo = _today]
         ELSE IF ~o.write
              THEN [s1 EXCEPT !.raised = TRUE,
                              !.effects = Append(@, Ev("write_text_raise", "Monday_Briefing", ""))]
              ELSE LET s2 == [s1 EXCEPT !.briefings = @ \cup {now.day},
                                        !.effects = Append(@, Ev("write_text", "Monday_Briefing", ""))]
                       s3 == write_audit_log(s2,
                                Entry("ceo_briefing", "Monday_Briefing.md", "success", NoExtra), o.w)
                   IN  IF s3.raised THEN s3 ELSE [s3 EXCEPT !.last_ceo = _today]

\* a tick that evaluates the two triggers independently
tick_both(st, od, oc) ==
    LET s1 == IF _should_run_ceo(st) THEN run_ceo_briefing(st, oc) ELSE st
    IN  IF ~s1.raised /\ _should_run_daily(s1) THEN run_daily_briefing(s1, od) ELSE s1

\* a tick that leaves the daily briefing out on the day of the weekly one
tick_exclusive(st, od, oc) ==
    IF _should_run_ceo(st) THEN run_ceo_briefing(st, oc)
    ELSE IF Weekday # WEEKLY_CEO_DAY /\ _should_run_daily(st) THEN run_daily_briefing(st, od)
    ELSE st

tick(st, od, oc) ==
    IF _should_run_ceo(st) THEN run_ceo_briefing(st, oc)
    ELSE IF _should_run_daily(st) THEN run_daily_briefing(st, od)
    ELSE st

\* tick() in which KeyboardInterrupt is raised inside the job it has begun:
\* in run_ceo_briefing after the mkdir, in run_daily_briefing after its
\* first line; except Exception does not catch it
tick_interrupted(st) ==
    LET s1 == IF _should_run_ceo(st) THEN [Fire(st, "ceo") EXCEPT !.briefings_dir = TRUE]
              ELSE IF _should_run_daily(st) THEN Fire(st, "daily")
              ELSE st
    IN  [s1 EXCEPT !.effects = Append(@, Ev("KeyboardInterrupt", "tick", ""))]

\* ------------------------------------------------------------------ main
\* the state the methods of the three components work on
Prog ==
    [processes |-> processes, procs |-> procs, popen_calls |-> popen_calls,
     seen_files |-> seen_files, seen_disk |-> seen_disk,
     last_daily |-> last_daily, last_ceo |-> last_ceo,
     briefings_dir |-> briefings_dir, briefings |-> briefings, fired |-> fired,
     audit |-> audit, effects |-> <<>>, raised |-> FALSE]

\* the calls of a handler that failed
Faults(eff) ==
    Cardinality({i \in 1..Len(eff) :
        \/ eff[i].ev \in {"popen_fail", "audit_raise", "save_seen_raise",
                          "mkdir_raise", "write_text_raise"}
        \/ eff[i].ev = "subprocess_run" /\ eff[i].info # "zero"})

WithinBounds(r) ==
    /\ Len(r.audit) <= MaxAudit
    /\ Len(r.procs) <= MaxProcs
    /\ env_events + Faults(r.effects) <= MaxEnv

Apply(r) ==
    /\ processes' = r.processes
    /\ procs' = r.procs
    /\ popen_calls' = r.popen_calls
    /\ seen_files' = r.seen_files
    /\ seen_disk' = r.seen_disk
    /\ last_daily' = r.last_daily
    /\ last_ceo' = r.last_ceo
    /\ briefings_dir' = r.briefings_dir
    /\ briefings' = r.briefings
    /\ fired' = r.fired
    /\ audit' = r.audit
    /\ effects' = r.effects
    /\ env_events' = env_events + Faults(r.effects)

NoScan ==
    [done |-> FALSE, listing |-> [n \in FileNames |-> "absent"], seen_before |-> {},
     disk_before |-> NoSeenFile, entries |-> <<>>, repeat |-> FALSE]

\* a startup that launches the watchers whatever the flags say
Startup_unconditional(next) ==
    /\ pc = "start"
    /\ \E os \in [{n \in Names : script_exists[n] /\ ~dry_run} -> StartOutcomes],
          wo \in BOOLEAN :
          LET s0 == Scheduler_init([Prog EXCEPT !.processes = [n \in Names |-> 0],
                                                !.seen_files = _load_seen(seen_disk)])
              s1 == start_all(s0, os)
              s2 == IF s1.raised THEN s1
                    ELSE write_audit_log(s1,
                            Entry("orchestrator_started", "orchestrator.py", "success",
                                  [dry_run |-> dry_run, no_watchers |-> no_watchers]), wo)
          IN  /\ WithinBounds(s2)
              /\ Apply(s2)
              /\ pc' = IF s2.raised THEN "failed" ELSE next
    /\ UNCHANGED <<log_vars, watcher_vars, cli_vars, dry_run, no_watchers, interrupted, runs, script_exists,
                   iterations, always_exited, inbox_exists, inbox, last_scan,
                   now, weekday0, all_ticks>>

\* main(), from the construction of the three components to the entry of
\* the loop: FolderRouter() loads the seen set, start_all runs unless
\* --no-watchers, then orchestrator_started is written
Startup(next) ==
    /\ pc = "start"
    /\ \E os \in [{n \in Names : script_exists[n] /\ ~no_watchers /\ ~dry_run} -> StartOutcomes],
          wo \in BOOLEAN :
          LET s0 == Scheduler_init([Prog EXCEPT !.processes = [n \in Names |-> 0],
                                                !.seen_files = _load_seen(seen_disk)])
              s1 == IF no_watchers THEN s0 ELSE start_all(s0, os)
              s2 == IF s1.raised THEN s1
                    ELSE write_audit_log(s1,
                            Entry("orchestrator_started", "orchestrator.py", "success",
                                  [dry_run |-> dry_run, no_watchers |-> no_watchers]), wo)
          IN  /\ WithinBounds(s2)
              /\ Apply(s2)
              /\ pc' = IF s2.raised THEN "failed" ELSE next
    /\ UNCHANGED <<log_vars, watcher_vars, cli_vars, dry_run, no_watchers, interrupted, runs, script_exists,
                   iterations, always_exited, inbox_exists, inbox, last_scan,
                   now, weekday0, all_ticks>>

\* the handles check_health will find exited
DeadHandles == {n \in Names : processes[n] # 0 /\ Exited(procs, processes[n])}

\* main(), lines 357-358: one check_health pass unless --no-watchers
HealthCheck(next) ==
    /\ pc = "health"
    /\ iterations < MaxIter
    /\ iterations' = iterations + 1
    /\ IF no_watchers
       THEN /\ pc' = next
            /\ effects' = <<>>
            /\ UNCHANGED <<audit, env_events, processes, procs, popen_calls, always_exited,
                           seen_files, seen_disk, last_daily, last_ceo, briefings_dir,
                           briefings, fired>>
       ELSE /\ \E os \in [DeadHandles -> HealthOutcomes] :
                  LET r == check_health(Prog, os)
                  IN  /\ WithinBounds(r)
                      /\ Apply(r)
                      /\ pc' = IF r.raised THEN "died" ELSE next
            /\ always_exited' = [n \in Names |-> always_exited[n] /\ n \in DeadHandles]
    /\ UNCHANGED <<log_vars, watcher_vars, cli_vars, dry_run, no_watchers, interrupted, runs, script_exists,
                   inbox_exists, inbox, last_scan, now, weekday0, all_ticks>>

\* a scan step that moves the files it routes out of Needs_Action
Scan_consuming(next) ==
    /\ pc = "scan"
    /\ \E order \in Orders(Listing), fail_at \in 0..Cardinality(Listing), save_ok \in BOOLEAN :
          LET r == scan(Prog, order, fail_at, save_ok)
          IN  \* a call that is not made has no outcome to choose
              /\ fail_at # 0 => /\ order[fail_at] \notin seen_files
                                /\ inbox[order[fail_at]] = "file"
                                /\ save_ok
              /\ WithinBounds(r)
              /\ Apply(r)
              /\ inbox' = [n \in FileNames |->
                            IF n \in r.seen_files \ seen_files THEN "absent" ELSE inbox[n]]
              /\ pc' = IF r.raised THEN "died" ELSE next
              /\ last_scan' =
                    [done |-> ~r.raised,
                     listing |-> inbox,
                     seen_before |-> seen_files,
                     disk_before |-> seen_disk,
                     entries |-> SubSeq(r.audit, Len(audit) + 1, Len(r.audit)),
                     repeat |-> last_scan.done /\ last_scan.listing = inbox]
    /\ UNCHANGED <<log_vars, watcher_vars, cli_vars, dry_run, no_watchers, interrupted, runs, script_exists,
                   iterations, always_exited, inbox_exists, now, weekday0, all_ticks>>

\* main(), line 361: folder_router.scan()
Scan(next) ==
    /\ pc = "scan"
    /\ \E order \in Orders(Listing), fail_at \in 0..Cardinality(Listing), save_ok \in BOOLEAN :
          LET r == scan(Prog, order, fail_at, save_ok)
          IN  \* a call that is not made has no outcome to choose
              /\ fail_at # 0 => /\ order[fail_at] \notin seen_files
                                /\ inbox[order[fail_at]] = "file"
                                /\ save_ok
              /\ WithinBounds(r)
              /\ Apply(r)
              /\ pc' = IF r.raised THEN "died" ELSE next
              /\ last_scan' =
                    [done |-> ~r.raised,
                     listing |-> inbox,
                     seen_before |-> seen_files,
                     disk_before |-> seen_disk,
                     entries |-> SubSeq(r.audit, Len(audit) + 1, Len(r.audit)),
                     repeat |-> last_scan.done /\ last_scan.listing = inbox]
    /\ UNCHANGED <<log_vars, watcher_vars, cli_vars, dry_run, no_watchers, interrupted, runs, script_exists,
                   iterations, always_exited, inbox_exists, inbox, now, weekday0, all_ticks>>

\* main(), line 364: scheduler.tick()
Tick(next) ==
    /\ pc = "tick"
    /\ \E od \in DailyOutcomes, oc \in CeoOutcomes :
          LET r == tick(Prog, od, oc)
              ceo == _should_run_ceo(Prog)
              daily == ~ceo /\ _should_run_daily(Prog)
          IN  \* a call that is not made has no outcome to choose
              /\ (ceo /\ ~dry_run) \/ (oc.write /\ oc.w)
              /\ ceo \/ oc.mkdir
              /\ (daily /\ ~dry_run) \/ od = [run |-> "zero", w |-> TRUE]
              /\ WithinBounds(r)
              /\ Apply(r)
              /\ pc' = IF r.raised THEN "died" ELSE next
    /\ UNCHANGED <<log_vars, watcher_vars, cli_vars, dry_run, no_watchers, interrupted, runs, script_exists,
                   iterations, always_exited, inbox_exists, inbox, last_scan,
                   now, weekday0, all_ticks>>

\* the clock one minute later
NextMinute(t) ==
    IF t.min + 1 < MinPerHour THEN [t EXCEPT !.min = @ + 1]
    ELSE IF t.hour < 23 THEN [t EXCEPT !.hour = @ + 1, !.min = 0]
    ELSE [day |-> t.day + 1, hour |-> 0, min |-> 0]

\* the clock at the start of the next hour
NextHour(t) ==
    IF t.hour < 23 THEN [t EXCEPT !.hour = @ + 1, !.min = 0]
    ELSE [day |-> t.day + 1, hour |-> 0, min |-> 0]

\* the clock moves to t; a new day has a new, empty partition of the audit log
ClockTo(t) ==
    /\ now' = t
    /\ audit' = IF t.day = now.day THEN audit ELSE <<>>

\* main(), lines 366-367: time.sleep(60)
Sleep(next) ==
    /\ pc = "sleep"
    /\ now.day < MaxDay
    /\ ClockTo(NextMinute(now))
    /\ pc' = next
    /\ UNCHANGED <<log_vars, watcher_vars, cli_vars, dry_run, no_watchers, interrupted, effects, runs, env_events, wm_vars,
                   fr_vars, weekday0, last_daily, last_ceo, briefings_dir, briefings,
                   fired, all_ticks>>

\* the same, when the process is not scheduled again before the next hour
\* (a suspended machine, a loaded one)
Oversleep(next) ==
    /\ pc = "sleep"
    /\ now.day < MaxDay
    /\ ClockTo(NextHour(now))
    /\ pc' = next
    /\ all_ticks' = FALSE
    /\ UNCHANGED <<log_vars, watcher_vars, cli_vars, dry_run, no_watchers, interrupted, effects, runs, env_events, wm_vars,
                   fr_vars, weekday0, last_daily, last_ceo, briefings_dir, briefings, fired>>

\* KeyboardInterrupt is raised in the main thread between two handlers or
\* in time.sleep, and caught at line 369
Interrupt ==
    /\ pc \in {"health", "scan", "tick", "sleep"}
    /\ pc' = "stopping"
    /\ interrupted' = TRUE
    /\ UNCHANGED <<log_vars, watcher_vars, cli_vars, dry_run, no_watchers, audit, effects, runs, env_events, wm_vars,
                   fr_vars, sch_vars>>

\* KeyboardInterrupt is raised inside check_health, and caught at line 369
HealthCheckInterrupted ==
    /\ pc = "health"
    /\ ~no_watchers
    /\ iterations < MaxIter
    /\ \E k \in 1..Len(NameOrder), os \in [DeadHandles -> HealthOutcomes] :
          LET r == check_health_interrupted(Prog, k, os)
          IN  /\ ~r.raised
              /\ \A n \in DeadHandles :
                    (\A i \in 1..(k - 1) : NameOrder[i] # n) =>
                        os[n] = [wc |-> TRUE, start |-> [popen |-> TRUE, w1 |-> TRUE, w2 |-> TRUE]]
              /\ WithinBounds(r)
              /\ Apply(r)
    /\ pc' = "stopping"
    /\ interrupted' = TRUE
    /\ UNCHANGED <<log_vars, watcher_vars, cli_vars, dry_run, no_watchers, runs, script_exists, iterations, always_exited,
                   inbox_exists, inbox, last_scan, now, weekday0, all_ticks>>

\* KeyboardInterrupt is raised inside scan(), and caught at line 369
ScanInterrupted ==
    /\ pc = "scan"
    /\ inbox_exists
    /\ \E order \in Orders(Listing), k \in 1..(Cardinality(Listing) + 1) :
          LET r == scan_interrupted(Prog, order, k)
          IN  /\ WithinBounds(r)
              /\ Apply(r)
              /\ last_scan' =
                    [done |-> FALSE,
                     listing |-> inbox,
                     seen_before |-> seen_files,
                     disk_before |-> seen_disk,
                     entries |-> SubSeq(r.audit, Len(audit) + 1, Len(r.audit)),
                     repeat |-> last_scan.done /\ last_scan.listing = inbox]
    /\ pc' = "stopping"
    /\ interrupted' = TRUE
    /\ UNCHANGED <<log_vars, watcher_vars, cli_vars, dry_run, no_watchers, runs, script_exists, iterations, always_exited,
                   inbox_exists, inbox, now, weekday0, all_ticks>>

\* KeyboardInterrupt is raised inside tick(), and caught at line 369
TickInterrupted ==
    /\ pc = "tick"
    /\ LET r == tick_interrupted(Prog)
       IN  /\ WithinBounds(r)
           /\ Apply(r)
    /\ pc' = "stopping"
    /\ interrupted' = TRUE
    /\ UNCHANGED <<log_vars, watcher_vars, cli_vars, dry_run, no_watchers, runs, script_exists, iterations, always_exited,
                   inbox_exists, inbox, last_scan, now, weekday0, all_ticks>>

\* main(), lines 369-373: the except KeyboardInterrupt block
Shutdown ==
    /\ pc = "stopping"
    /\ \E wo \in BOOLEAN :
          LET s1 == stop_all(Prog)
              s2 == write_audit_log(s1,
                       Entry("orchestrator_stopped", "orchestrator.py", "success", NoExtra), wo)
          IN  /\ WithinBounds(s2)
              /\ Apply(s2)
              /\ pc' = IF s2.raised THEN "died" ELSE "stopped"
    /\ UNCHANGED <<log_vars, watcher_vars, cli_vars, dry_run, no_watchers, interrupted, runs, script_exists, iterations,
                   always_exited, inbox_exists, inbox, last_scan, now, weekday0, all_ticks>>

\* the orchestrator is started again after it has ended
Relaunch ==
    /\ pc \in {"died", "failed", "stopped"}
    /\ runs < MaxRuns
    /\ runs' = runs + 1
    /\ pc' = "start"
    /\ interrupted' = FALSE
    /\ effects' = <<>>
    /\ iterations' = 0
    /\ always_exited' = [n \in Names |-> TRUE]
    /\ last_scan' = NoScan
    /\ all_ticks' = FALSE
    /\ UNCHANGED <<log_vars, watcher_vars, cli_vars, dry_run, no_watchers, audit, env_events, script_exists, processes, procs,
                   popen_calls, inbox_exists, inbox, seen_files, seen_disk, now, weekday0,
                   last_daily, last_ceo, briefings_dir, briefings, fired>>

\* ----------------------------------------------------------- environment
\* What the environment does is seen by the program only in the handler
\* that reads it: an exit in poll(), an entry of Needs_Action in iterdir().
\* The environment's steps are therefore taken where main() is about to
\* run that handler.

\* a watcher process ends on its own, with any return code
ProcessExit ==
    /\ pc = "health"
    /\ env_events < MaxEnv
    /\ \E pid \in 1..Len(procs), code \in ExitCodes :
          /\ procs[pid].alive
          /\ procs' = [procs EXCEPT ![pid].alive = FALSE, ![pid].returncode = code]
    /\ env_events' = env_events + 1
    /\ UNCHANGED <<log_vars, watcher_vars, cli_vars, pc, dry_run, no_watchers, interrupted, audit, effects, runs,
                   script_exists, processes, iterations, always_exited, popen_calls,
                   fr_vars, sch_vars>>

\* a watcher (or anyone) puts an entry into Needs_Action
DropFile ==
    /\ pc = "scan"
    /\ env_events < MaxEnv
    /\ inbox_exists
    /\ \E n \in FileNames, k \in {"file", "dir"} :
          /\ inbox[n] = "absent"
          /\ inbox' = [inbox EXCEPT ![n] = k]
    /\ env_events' = env_events + 1
    /\ UNCHANGED <<log_vars, watcher_vars, cli_vars, pc, dry_run, no_watchers, interrupted, audit, effects, runs, wm_vars,
                   inbox_exists, seen_files, seen_disk, last_scan, sch_vars>>

\* a handler moves an entry out of Needs_Action
RemoveFile ==
    /\ pc = "scan"
    /\ env_events < MaxEnv
    /\ \E n \in FileNames :
          /\ inbox[n] # "absent"
          /\ inbox' = [inbox EXCEPT ![n] = "absent"]
    /\ env_events' = env_events + 1
    /\ UNCHANGED <<log_vars, watcher_vars, cli_vars, pc, dry_run, no_watchers, interrupted, audit, effects, runs, wm_vars,
                   inbox_exists, seen_files, seen_disk, last_scan, sch_vars>>

\* a watcher's constructor creates Needs_Action
MakeInbox ==
    /\ pc = "scan"
    /\ ~inbox_exists
    /\ inbox_exists' = TRUE
    /\ UNCHANGED <<log_vars, watcher_vars, cli_vars, pc, dry_run, no_watchers, interrupted, audit, effects, runs, env_events,
                   wm_vars, inbox, seen_files, seen_disk, last_scan, sch_vars>>

\* ------------------------------------------ the day partition, step by step
\* write_audit_log as the file system sees it.  orchestrator.py lines 69-88
\* and base_watcher.py lines 81-103 are the same code; every process that
\* calls it reads the whole partition, appends in memory and writes the
\* whole partition back.  Path.write_text opens the file for writing, which
\* cuts it to length zero, and then writes the text.
Appenders == {"Orchestrator", "GmailWatcher"}

\* an entry written by process w in its n-th call
LogEntry(w, n) == [actor |-> w, seq |-> n]

\* what the file can hold: nothing (it does not exist), a JSON array of
\* entries, text that is not valid JSON (empty text included), valid JSON
\* that is not an array, bytes that are not UTF-8
NoFile == [kind |-> "absent", entries |-> <<>>]
ListFile(es) == [kind |-> "list", entries |-> es]
TextFile == [kind |-> "text", entries |-> <<>>]
ObjectFile == [kind |-> "object", entries |-> <<>>]
BinaryFile == [kind |-> "binary", entries |-> <<>>]

\* an append that puts the new entry in the place of the list
existing_replace(existing, entry) == <<entry>>

\* an append that puts the new entry first
existing_append_front(existing, entry) == <<entry>> \o existing

\* existing.append(entry)
existing_append(existing, entry) == Append(existing, entry)

\* a reader that lets JSONDecodeError through
read_existing_strict(f) ==
    CASE f.kind = "absent" -> [status |-> "ok", existing |-> <<>>]
      [] f.kind = "list"   -> [status |-> "ok", existing |-> f.entries]
      [] f.kind = "text"   -> [status |-> "JSONDecodeError", existing |-> <<>>]
      [] f.kind = "object" -> [status |-> "AttributeError", existing |-> <<>>]
      [] f.kind = "binary" -> [status |-> "UnicodeDecodeError", existing |-> <<>>]

\* lines 81-87: existing = [] unless the file exists and json.loads accepts
\* its text; only JSONDecodeError is caught.  A value that is not a list has
\* no append (AttributeError at line 87); bytes that are not UTF-8 make
\* read_text raise UnicodeDecodeError, which is a ValueError
read_existing(f) ==
    CASE f.kind = "absent" -> [status |-> "ok", existing |-> <<>>]
      [] f.kind = "list"   -> [status |-> "ok", existing |-> f.entries]
      [] f.kind = "text"   -> [status |-> "ok", existing |-> <<>>]
      [] f.kind = "object" -> [status |-> "AttributeError", existing |-> <<>>]
      [] f.kind = "binary" -> [status |-> "UnicodeDecodeError", existing |-> <<>>]

\* json.dumps(existing, indent=2), as the file then holds it
json_dumps(existing) == ListFile(existing)

\* what is kept of a call that has ended: how it ended, the file when it
\* began (before), what it read, the list it built, its entry, whether no
\* other process took a step during it, and the file when it ended (after)
NoCall ==
    [status |-> "none", before |-> NoFile, read |-> <<>>, existing |-> <<>>,
     entry |-> LogEntry("", 0), alone |-> TRUE, after |-> NoFile]

IdleAppender ==
    [pc |-> "idle", calls |-> 0, entry |-> LogEntry("", 0), read |-> <<>>,
     existing |-> <<>>, before |-> NoFile, alone |-> TRUE, last |-> NoCall]

\* a step of w has come between the steps of every other call in progress
Crossed(a, w) ==
    [v \in Appenders |-> IF v # w /\ a[v].pc # "idle" THEN [a[v] EXCEPT !.alone = FALSE]
                         ELSE a[v]]

\* the call of w ends here with this status, leaving the file as after
Finish(a, w, status, after) ==
    [a EXCEPT ![w].pc = "idle",
              ![w].last = [status |-> status, before |-> a[w].before, read |-> a[w].read,
                           existing |-> a[w].existing, entry |-> a[w].entry,
                           alone |-> a[w].alone, after |-> after]]

Finished(w, status, after) ==
    /\ appender' = Finish(Crossed(appender, w), w, status, after)
    /\ log_hist' = [log_hist EXCEPT
                       !.appended = IF status = "ok" THEN Append(@, appender[w].entry) ELSE @,
                       !.clean = @ /\ status = "ok" /\ appender[w].alone]

\* process w calls write_audit_log: lines 71-80, the entry is built
LogCall(w) ==
    /\ appender[w].pc = "idle"
    /\ appender[w].calls < MaxAppends
    /\ appender' = [Crossed(appender, w) EXCEPT
                       ![w].pc = "read",
                       ![w].calls = @ + 1,
                       ![w].entry = LogEntry(w, appender[w].calls + 1),
                       ![w].read = <<>>,
                       ![w].existing = <<>>,
                       ![w].before = log_file,
                       ![w].alone = TRUE]
    /\ UNCHANGED <<log_file, log_hist>>

\* lines 81-87: the file is read and the entry appended to the list in
\* memory; ok = FALSE: read_text raises OSError
LogRead(w) ==
    /\ appender[w].pc = "read"
    /\ \E ok \in BOOLEAN :
          LET r == read_existing(log_file) IN
          IF ~ok /\ log_file.kind # "absent" THEN Finished(w, "OSError", log_file)
          ELSE IF r.status # "ok" THEN Finished(w, r.status, log_file)
          ELSE /\ appender' = [Crossed(appender, w) EXCEPT
                                  ![w].pc = "open",
                                  ![w].read = r.existing,
                                  ![w].existing = existing_append(r.existing, appender[w].entry)]
               /\ UNCHANGED log_hist
    /\ UNCHANGED log_file

\* line 88, first half: write_text opens the file, which empties it;
\* ok = FALSE: the open raises OSError and the file stays as it was
LogOpen(w) ==
    /\ appender[w].pc = "open"
    /\ \E ok \in BOOLEAN :
          IF ok
          THEN /\ log_file' = TextFile
               /\ appender' = [Crossed(appender, w) EXCEPT ![w].pc = "flush"]
               /\ UNCHANGED log_hist
          ELSE /\ Finished(w, "OSError", log_file)
               /\ UNCHANGED log_file

\* line 88, second half: the text is written and the call returns;
\* ok = FALSE: the write raises OSError and leaves a part of the text
LogFlush(w) ==
    /\ appender[w].pc = "flush"
    /\ \E ok \in BOOLEAN :
          IF ok
          THEN /\ log_file' = json_dumps(appender[w].existing)
               /\ Finished(w, "ok", json_dumps(appender[w].existing))
          ELSE /\ log_file' = TextFile
               /\ Finished(w, "OSError", TextFile)

Orch_LogCall == LogCall("Orchestrator") /\ UNCHANGED Frame
Orch_LogRead == LogRead("Orchestrator") /\ UNCHANGED Frame
Orch_LogOpen == LogOpen("Orchestrator") /\ UNCHANGED Frame
Orch_LogFlush == LogFlush("Orchestrator") /\ UNCHANGED Frame
Watcher_LogCall == LogCall("GmailWatcher") /\ UNCHANGED Frame
Watcher_LogRead == LogRead("GmailWatcher") /\ UNCHANGED Frame
Watcher_LogOpen == LogOpen("GmailWatcher") /\ UNCHANGED Frame
Watcher_LogFlush == LogFlush("GmailWatcher") /\ UNCHANGED Frame

\* ------------------------------------------------------------ the watchers
\* The watcher processes write the Task Files: orders_watcher.py one for
\* every file dropped into Orders, gmail_watcher.py one for every message
\* that check_for_updates returns.  A file name is kept as its parts (the
\* timestamp has a fixed width, so the text of a name determines them).

\* OrdersDropHandler.SUPPORTED_EXTENSIONS
SUPPORTED_EXTENSIONS == {".csv", ".tsv"}

\* str.lower, on the suffixes that occur
Lower(x) == IF x = ".CSV" THEN ".csv" ELSE x

\* the files that can be dropped into Orders: Path.stem and Path.suffix
OrderSources ==
    { [stem |-> "orders", suffix |-> ".csv"], [stem |-> "orders", suffix |-> ".tsv"],
      [stem |-> "returns", suffix |-> ".CSV"], [stem |-> "notes", suffix |-> ".txt"] }

\* Gmail message ids: two that agree in their first ten characters, one
\* that differs from them in its third
MessageIds ==
    { <<"1", "9", "c", "2", "f", "0", "a", "4", "7", "b", "3", "e", "5", "d", "6", "1">>,
      <<"1", "9", "c", "2", "f", "0", "a", "4", "7", "b", "8", "8", "0", "2", "c", "f">>,
      <<"1", "9", "b", "7", "1", "e", "4", "4", "0", "a", "9", "6", "2", "d", "1", "0">> }

\* item['id'][:8]
IdPrefixLen == 8
IdPrefix(id) == SubSeq(id, 1, IF Len(id) < IdPrefixLen THEN Len(id) ELSE IdPrefixLen)

\* datetime.now().strftime("%Y-%m-%d_%H-%M-%S"): the reading cut to its second
strftime_S(t) == t \div TicksPerSec

\* Path.write_text(content): the file of that name holds the content of item
write_text(files, name, item) ==
    {f \in files : f.name # name} \cup {[name |-> name, item |-> item]}

NoTasks == [events |-> {}, processed_ids |-> {}, files |-> {}, made |-> {}]

Materialise(tk, name, item) ==
    [tk EXCEPT !.files = write_text(@, name, item),
               !.made = @ \cup {[name |-> name, item |-> item]}]

\* orders_watcher.py, lines 75-108: NEW_ORDERS_{source.stem}_{timestamp}.md
_create_trigger_file(tk, source, t) ==
    Materialise(tk, [kind |-> "NEW_ORDERS", stem |-> <<source.stem>>,
                     ts |-> strftime_S(t), id |-> <<>>], source)

\* orders_watcher.py, lines 62-73 (without --auto-parse)
on_created(tk, source, t) ==
    LET t1 == [tk EXCEPT !.events = @ \cup {source}]
    IN  IF Lower(source.suffix) \notin SUPPORTED_EXTENSIONS THEN t1
        ELSE _create_trigger_file(t1, source, t)

\* gmail_watcher.py, lines 162-219 (not dry-run):
\* EMAIL_{timestamp}_{item['id'][:8]}.md, then the id is marked processed
create_action_file(tk, id, t) ==
    LET t1 == Materialise(tk, [kind |-> "EMAIL", stem |-> <<>>,
                               ts |-> strftime_S(t), id |-> IdPrefix(id)], id)
    IN  [t1 EXCEPT !.processed_ids = @ \cup {id}]

\* the characters of the stems that occur
StemText(stem) ==
    CASE stem = "orders" -> <<"o", "r", "d", "e", "r", "s">>
      [] stem = "returns" -> <<"r", "e", "t", "u", "r", "n", "s">>
      [] stem = "notes" -> <<"n", "o", "t", "e", "s">>

\* the decimal digits of a number
RECURSIVE Digits(_)
Digits(n) ==
    LET d == <<"0", "1", "2", "3", "4", "5", "6", "7", "8", "9">>[(n % 10) + 1]
    IN  IF n < 10 THEN <<d>> ELSE Digits(n \div 10) \o <<d>>

\* the f-strings of orders_watcher.py line 78 and gmail_watcher.py line 174:
\* the text of the name of a task file
NameText(name) ==
    IF name.kind = "NEW_ORDERS"
    THEN Str_NEW_ORDERS \o StemText(name.stem[1]) \o <<"_">> \o Digits(name.ts)
            \o <<".", "m", "d">>
    ELSE Str_EMAIL \o Digits(name.ts) \o <<"_">> \o name.id \o <<".", "m", "d">>

\* watchdog reports a file newly created in Orders
Orders_on_created ==
    /\ \E source \in OrderSources \ task.events :
          task' = on_created(task, source, wclock)
    /\ UNCHANGED <<Orch, log_vars, wclock, stamp, retry, gw>>

\* base_watcher.py, lines 151-153: run() materialises an item that
\* check_for_updates returned, a message whose id is not in processed_ids
Gmail_create_action_file ==
    /\ \E id \in MessageIds \ task.processed_ids :
          task' = create_action_file(task, id, wclock)
    /\ UNCHANGED <<Orch, log_vars, wclock, stamp, retry, gw>>

\* time goes by
WatcherClock ==
    /\ wclock < MaxClock
    /\ wclock' = wclock + 1
    /\ UNCHANGED <<Orch, log_vars, task, stamp, retry, gw>>

\* write_audit_log reads the clock twice, in orchestrator.py (lines 71 and
\* 74) as in base_watcher.py (lines 83 and 87): once for the name of the
\* partition and once for the timestamp of the entry.

\* strftime("%Y-%m-%d") of a reading, and of the timestamp isoformat() makes
\* of a reading: the number of its day
DateOf(t) == (t \div TicksPerSec) \div SecsPerDay

\* no date taken
Undated == -1

NoStamps ==
    [date |-> [w \in Appenders |-> Undated], calls |-> [w \in Appenders |-> 0],
     partitions |-> {}]

\* lines 71-72: date = datetime.now().strftime("%Y-%m-%d"), the partition is
\* Logs/<date>.json
write_audit_log_date ==
    /\ \E w \in Appenders :
          /\ stamp.date[w] = Undated
          /\ stamp.calls[w] < MaxAppends + 1
          /\ stamp' = [stamp EXCEPT !.date[w] = DateOf(wclock), !.calls[w] = @ + 1]
    /\ UNCHANGED <<Orch, log_vars, wclock, task, retry, gw>>

\* lines 73-88: the entry gets datetime.now().isoformat() as its timestamp
\* and is appended to the partition of the date taken before
write_audit_log_entry ==
    /\ \E w \in Appenders :
          /\ stamp.date[w] # Undated
          /\ stamp' = [stamp EXCEPT
                          !.date[w] = Undated,
                          !.partitions = @ \cup {[partition |-> stamp.date[w], actor |-> w,
                                                   seq |-> stamp.calls[w],
                                                   timestamp |-> wclock]}]
    /\ UNCHANGED <<Orch, log_vars, wclock, task, retry, gw>>

\* BaseWatcher._check_with_retry, base_watcher.py lines 105-124

\* the defaults of BaseWatcher.__init__, lines 35-36, and the cap of line 121
DEFAULT_MAX_RETRIES == 3
DEFAULT_RETRY_BASE_DELAY == 5
MAX_DELAY == 60

\* the values of retry_base_delay a watcher is constructed with
BaseDelays == {DEFAULT_RETRY_BASE_DELAY, 30, 45, 61}

\* what check_for_updates can return
ItemLists == {<<>>, <<"m1">>, <<"m1", "m2">>}

RECURSIVE Pow2(_)
Pow2(n) == IF n = 0 THEN 1 ELSE 2 * Pow2(n - 1)

\* a delay without the cap
retry_delay_uncapped(base, attempt) == base * Pow2(attempt)

\* line 121: min(self.retry_base_delay * (2 ** attempt), 60)
retry_delay(base, attempt) ==
    IF base * Pow2(attempt) < MAX_DELAY THEN base * Pow2(attempt) ELSE MAX_DELAY

\* a watcher that has not begun the call
RetryIdle(m, b) ==
    [pc |-> "idle", max_retries |-> m, retry_base_delay |-> b, attempt |-> 0,
     events |-> <<>>, entries |-> <<>>, result |-> <<>>]

\* the audit entry of lines 113-119 (BaseWatcher.write_audit_log, actor is
\* the class name)
check_failed_entry(r) ==
    [action_type |-> "check_failed", actor |-> "GmailWatcher", target |-> "external_source",
     result |-> "error", extra |-> [attempts |-> r.max_retries]]

\* an except block that gives up without an audit entry
on_exception_silent(r, wo) ==
    IF r.attempt = r.max_retries - 1
    THEN [r EXCEPT !.pc = "returned", !.result = <<>>]
    ELSE [r EXCEPT !.pc = "sleep",
                   !.events = Append(@, [ev |-> "sleep",
                                         delay |-> retry_delay(r.retry_base_delay, r.attempt),
                                         items |-> <<>>])]

\* lines 110-123, the except block: after the last attempt the entry is
\* written (wo = FALSE: write_audit_log raises, and the exception leaves
\* _check_with_retry) and [] is returned; otherwise the call sleeps
on_exception(r, wo) ==
    IF r.attempt = r.max_retries - 1
    THEN IF wo
         THEN [r EXCEPT !.pc = "returned", !.result = <<>>,
                        !.entries = Append(@, check_failed_entry(r)),
                        !.events = Append(@, [ev |-> "audit", delay |-> 0, items |-> <<>>])]
         ELSE [r EXCEPT !.pc = "raised",
                        !.events = Append(@, [ev |-> "audit_raise", delay |-> 0, items |-> <<>>])]
    ELSE [r EXCEPT !.pc = "sleep",
                   !.events = Append(@, [ev |-> "sleep",
                                         delay |-> retry_delay(r.retry_base_delay, r.attempt),
                                         items |-> <<>>])]

\* line 107: the for loop goes to its next attempt, or ends (line 124)
next_attempt(r, attempt) ==
    IF attempt < r.max_retries THEN [r EXCEPT !.pc = "try", !.attempt = attempt]
    ELSE [r EXCEPT !.pc = "returned", !.result = <<>>]

\* run(), line 148: _check_with_retry is called
Retry_call ==
    /\ retry.pc = "idle"
    /\ retry' = next_attempt(retry, 0)
    /\ UNCHANGED <<Orch, log_vars, wclock, task, stamp, gw>>

\* lines 108-109: check_for_updates returns a list, which is returned
Retry_attempt_returns ==
    /\ retry.pc = "try"
    /\ \E items \in ItemLists :
          retry' = [retry EXCEPT !.pc = "returned", !.result = items,
                                 !.events = Append(@, [ev |-> "call_ok", delay |-> 0, items |-> items])]
    /\ UNCHANGED <<Orch, log_vars, wclock, task, stamp, gw>>

\* lines 108-123: check_for_updates raises an Exception
Retry_attempt_raises ==
    /\ retry.pc = "try"
    /\ \E wo \in BOOLEAN :
          /\ wo \/ retry.attempt = retry.max_retries - 1
          /\ retry' = on_exception([retry EXCEPT
                                       !.events = Append(@, [ev |-> "call_raise", delay |-> 0, items |-> <<>>])],
                                   wo)
    /\ UNCHANGED <<Orch, log_vars, wclock, task, stamp, gw>>

\* line 123: time.sleep(delay) returns
Retry_wake ==
    /\ retry.pc = "sleep"
    /\ retry' = next_attempt(retry, retry.attempt + 1)
    /\ UNCHANGED <<Orch, log_vars, wclock, task, stamp, gw>>

\* The Gmail watcher, BaseWatcher.run with GmailWatcher's check_for_updates
\* and create_action_file.  The mailbox holds the unread customer messages;
\* the watcher reads them and never marks them as read, so a message stays
\* in the answer of the query until its id is in processed_ids.

\* Logs/gmail_processed_ids.json before any watcher has written it
NoIdFile == [kind |-> "absent", ids |-> {}]

\* gmail_watcher.py, lines 66-75: the set the constructor ends with
_load_processed_ids(f) == IF f.kind = "list" THEN f.ids ELSE {}

\* gmail_watcher.py, lines 77-81: the file holds the whole set
_save_processed_ids(ids) == [kind |-> "list", ids |-> ids]

\* gmail_watcher.py, lines 112-126: the unread customer messages whose id is
\* not in processed_ids
check_for_updates(mailbox, processed_ids) == mailbox \ processed_ids

\* gmail_watcher.py, lines 173-175: the path of the task file of a message
action_file_name(id, t) ==
    [kind |-> "EMAIL", stem |-> <<>>, ts |-> strftime_S(t), id |-> IdPrefix(id)]

GwEv(ev, item) == [ev |-> ev, item |-> item]

GwEntry(action_type, target, result) ==
    [action_type |-> action_type, actor |-> "GmailWatcher", target |-> target,
     result |-> result]

\* a watcher that has been constructed and has not polled yet
GwStart(dry, mailbox) ==
    [pc |-> "idle", dry_run |-> dry, mailbox |-> mailbox, processed_log |-> NoIdFile,
     items |-> <<>>, next |-> 1, trace |-> <<>>, audit |-> <<>>,
     polls |-> 0, stops |-> 0, faults |-> 0]

\* base_watcher.py, lines 81-103, as run() calls it for item; ok = FALSE: the
\* read or the write of the partition raises and nothing is written
gw_write_audit_log(g, item, entry, ok) ==
    IF ok
    THEN [g EXCEPT !.audit = Append(@, entry),
                   !.trace = Append(@, GwEv(entry.action_type, item))]
    ELSE [g EXCEPT !.faults = @ + 1,
                   !.trace = Append(@, GwEv("audit_raise", item))]

\* what the environment decides during one turn of the for loop of run():
\*   create: create_action_file returns ("ok"), or the fetch of the message
\*           raises ("get_raise"), or write_text raises ("write_raise"), or
\*           _save_processed_ids raises ("save_raise")
\*   w1:     the write of action_file_created succeeds
\*   w2:     the write of action_file_failed succeeds
ItemOutcomes ==
    [create : {"ok", "get_raise", "write_raise", "save_raise"}, w1 : BOOLEAN, w2 : BOOLEAN]

\* gmail_watcher.py, lines 161-217, for the message id at the reading t of
\* the clock: the watcher, the task files, and whether an exception left it
gmail_create_action_file(g, tk, id, t, c) ==
    IF c = "get_raise"
    THEN [g |-> [g EXCEPT !.faults = @ + 1, !.trace = Append(@, GwEv("create_raise", id))],
          tk |-> tk, raised |-> TRUE]
    ELSE IF g.dry_run
    THEN \* lines 177-181: nothing is written, the id is marked and saved
         LET tk1 == [tk EXCEPT !.processed_ids = @ \cup {id}] IN
         IF c = "save_raise"
         THEN [g |-> [g EXCEPT !.faults = @ + 1, !.trace = Append(@, GwEv("create_raise", id))],
               tk |-> tk1, raised |-> TRUE]
         ELSE [g |-> [g EXCEPT !.processed_log = _save_processed_ids(tk1.processed_ids),
                               !.trace = Append(@, GwEv("create_ok", id))],
               tk |-> tk1, raised |-> FALSE]
    ELSE IF c = "write_raise"
    THEN [g |-> [g EXCEPT !.faults = @ + 1, !.trace = Append(@, GwEv("create_raise", id))],
          tk |-> tk, raised |-> TRUE]
    ELSE \* lines 214-216: the file is written, then the id is marked and saved
         LET tk1 == create_action_file(tk, id, t) IN
         IF c = "save_raise"
         THEN [g |-> [g EXCEPT !.faults = @ + 1, !.trace = Append(@, GwEv("create_raise", id))],
               tk |-> tk1, raised |-> TRUE]
         ELSE [g |-> [g EXCEPT !.processed_log = _save_processed_ids(tk1.processed_ids),
                               !.trace = Append(@, GwEv("create_ok", id))],
               tk |-> tk1, raised |-> FALSE]

\* a loop that gives the batch up at the first item that fails
run_item_stop(g, tk, id, t, o) ==
    LET c == gmail_create_action_file(g, tk, id, t, o.create)
        s1 == IF c.raised THEN c.g
              ELSE gw_write_audit_log(c.g, id,
                      GwEntry("action_file_created", action_file_name(id, t), "success"), o.w1)
        failed == c.raised \/ ~o.w1
        s2 == IF failed
              THEN gw_write_audit_log(s1, id, GwEntry("action_file_failed", id, "error"), o.w2)
              ELSE s1
    IN  [g |-> IF failed \/ g.next = Len(g.items)
               THEN [s2 EXCEPT !.pc = "idle", !.next = @ + 1]
               ELSE [s2 EXCEPT !.next = @ + 1],
         tk |-> c.tk]

\* base_watcher.py, lines 151-169: one turn of the for loop of run(), for
\* the item id.  An exception of create_action_file or of the write of
\* action_file_created is caught at line 161 and action_file_failed is
\* written; an exception of that write is caught at line 177, outside the
\* loop, and the iteration goes to its sleep.
run_item(g, tk, id, t, o) ==
    LET c == gmail_create_action_file(g, tk, id, t, o.create)
        s1 == IF c.raised THEN c.g
              ELSE gw_write_audit_log(c.g, id,
                      GwEntry("action_file_created", action_file_name(id, t), "success"), o.w1)
        failed == c.raised \/ ~o.w1
        s2 == IF failed
              THEN gw_write_audit_log(s1, id, GwEntry("action_file_failed", id, "error"), o.w2)
              ELSE s1
    IN  [g |-> IF failed /\ ~o.w2
               THEN [s2 EXCEPT !.pc = "idle", !.trace = Append(@, GwEv("loop_left", id))]
               ELSE IF g.next = Len(g.items)
               THEN [s2 EXCEPT !.pc = "idle", !.next = @ + 1]
               ELSE [s2 EXCEPT !.next = @ + 1],
         tk |-> c.tk]

\* base_watcher.py, lines 146-149: an iteration of run() begins, and the poll
\* returns the new messages in the order of the answer
Gw_poll ==
    /\ gw.pc = "idle"
    /\ gw.polls < MaxPolls
    /\ \E order \in Orders(check_for_updates(gw.mailbox, task.processed_ids)) :
          gw' = [gw EXCEPT !.pc = IF order = <<>> THEN "idle" ELSE "batch",
                           !.items = order, !.next = 1, !.trace = <<>>,
                           !.polls = @ + 1]
    /\ UNCHANGED <<Orch, log_vars, wclock, task, stamp, retry>>

\* base_watcher.py, lines 151-169: the loop takes its next item
Gw_item ==
    /\ gw.pc = "batch"
    /\ \E o \in ItemOutcomes :
          LET r == run_item(gw, task, gw.items[gw.next], wclock, o)
              created == o.create = "ok"
          IN  \* a call that is not made has no outcome to choose
              /\ created \/ o.w1
              /\ (~created \/ ~o.w1) \/ o.w2
              /\ gw.dry_run => o.create # "write_raise"
              /\ r.g.faults <= MaxFaults
              /\ gw' = r.g
              /\ task' = r.tk
    /\ UNCHANGED <<Orch, log_vars, wclock, stamp, retry>>

\* the watcher process ends between two steps of run(): it crashes, or it
\* is terminated
Gw_stopped ==
    /\ gw.pc \in {"idle", "batch"}
    /\ gw.stops < MaxStops
    /\ gw' = [gw EXCEPT !.pc = "down", !.stops = @ + 1]
    /\ UNCHANGED <<Orch, log_vars, wclock, task, stamp, retry>>

\* the watcher process ends inside create_action_file, after write_text
\* (line 214) and before the id is marked and saved (lines 215-216)
Gw_stopped_in_create ==
    /\ gw.pc = "batch"
    /\ ~gw.dry_run
    /\ gw.stops < MaxStops
    /\ LET id == gw.items[gw.next] IN
          /\ task' = Materialise(task, action_file_name(id, wclock), id)
          /\ gw' = [gw EXCEPT !.pc = "down", !.stops = @ + 1,
                              !.trace = Append(@, GwEv("stopped", id))]
    /\ UNCHANGED <<Orch, log_vars, wclock, stamp, retry>>

\* the watcher is started again (by check_health, or by hand): the
\* constructor loads processed_ids from the file, line 63
Gw_restart ==
    /\ gw.pc = "down"
    /\ gw' = [gw EXCEPT !.pc = "idle", !.items = <<>>, !.next = 1, !.trace = <<>>]
    /\ task' = [task EXCEPT !.processed_ids = _load_processed_ids(gw.processed_log)]
    /\ UNCHANGED <<Orch, log_vars, wclock, stamp, retry>>

\* the watchers before they have done anything
InitWatchers ==
    /\ wclock = 0
    /\ task = NoTasks
    /\ stamp = NoStamps
    /\ retry = RetryIdle(DEFAULT_MAX_RETRIES, DEFAULT_RETRY_BASE_DELAY)
    /\ gw = GwStart(FALSE, {})

\* ---------------------------------------------------------- specifications
\* what is the same at the start of every specification
InitBase ==
    /\ pc = "start"
    /\ dry_run \in BOOLEAN
    /\ interrupted = FALSE
    /\ runs = 1
    /\ env_events = 0
    /\ processes = [n \in Names |-> 0]
    /\ procs = <<>>
    /\ audit = <<>>
    /\ effects = <<>>
    /\ iterations = 0
    /\ always_exited = [n \in Names |-> TRUE]
    /\ popen_calls = [n \in Names |-> 0]
    /\ inbox = [n \in FileNames |-> "absent"]
    /\ seen_files = {}
    /\ last_scan = NoScan
    /\ last_daily = NoDate
    /\ last_ceo = NoDate
    /\ briefings_dir = FALSE
    /\ briefings = {}
    /\ fired = <<>>
    /\ log_file = NoFile
    /\ appender = [w \in Appenders |-> IdleAppender]
    /\ log_hist = [init |-> NoFile, appended |-> <<>>, clean |-> TRUE]
    /\ InitWatchers

\* no VAULT_PATH in the environment and no --vault flag
InitCli == vault_env = NoValue /\ vault_flag = NoValue

\* a vault in which no router has run yet
InitCommon == InitBase /\ seen_disk = NoSeenFile /\ InitCli

Midnight0 == [day |-> 0, hour |-> 0, min |-> 0]

\* the supervisor: main() with watcher management on, scan and tick left out
InitWM ==
    /\ InitCommon
    /\ no_watchers = FALSE
    /\ script_exists \in [Names -> BOOLEAN]
    /\ inbox_exists = FALSE
    /\ now = Midnight0
    /\ weekday0 = 0
    /\ all_ticks = FALSE

WM_Startup == Startup("health")
WM_HealthCheck == HealthCheck("health")

NextWM ==
    \/ WM_Startup \/ WM_HealthCheck \/ ProcessExit
    \/ Interrupt \/ HealthCheckInterrupted \/ Shutdown

SpecWM == InitWM /\ [][NextWM]_vars

\* the router: main() with --no-watchers, the scheduler left out
InitFR ==
    /\ InitCommon
    /\ no_watchers = TRUE
    /\ script_exists = [n \in Names |-> TRUE]
    /\ inbox_exists \in BOOLEAN
    /\ now = Midnight0
    /\ weekday0 = 0
    /\ all_ticks = FALSE

FR_Startup == Startup("scan")
FR_Scan == Scan("scan")

NextFR ==
    \/ FR_Startup \/ FR_Scan \/ DropFile \/ RemoveFile \/ MakeInbox
    \/ Interrupt \/ ScanInterrupted \/ Shutdown \/ Relaunch

SpecFR == InitFR /\ [][NextFR]_vars

\* the scheduler: main() with --no-watchers, the scan left out
InitSch ==
    /\ InitCommon
    /\ no_watchers = TRUE
    /\ script_exists = [n \in Names |-> TRUE]
    /\ inbox_exists = FALSE
    /\ now \in [day : {0}, hour : 0..23, min : 0..(MinPerHour - 1)]
    /\ weekday0 \in 0..6
    /\ all_ticks = (now = Midnight0)

Sch_Startup == Startup("tick")
Sch_Tick == Tick("sleep")
Sch_Sleep == Sleep("tick")
Sch_Oversleep == Oversleep("tick")

NextSch == Sch_Startup \/ Sch_Tick \/ Sch_Sleep \/ Sch_Oversleep

SpecSch == InitSch /\ [][NextSch]_vars

\* the whole of main(), started at the briefing hour of the weekly day with
\* every script in place: the first tick is due to fire the weekly trigger
\* and the second one the daily trigger
InitMain ==
    /\ InitCommon
    /\ no_watchers \in BOOLEAN
    /\ script_exists = [n \in Names |-> TRUE]
    /\ inbox_exists \in BOOLEAN
    /\ now = [day |-> 0, hour |-> DAILY_BRIEFING_HOUR, min |-> 0]
    /\ weekday0 = WEEKLY_CEO_DAY
    /\ all_ticks = FALSE

Main_Startup == Startup("health")
\* a loop that goes from the health check straight to the tick
Main_HealthCheck_skip == HealthCheck("tick")

Main_HealthCheck == HealthCheck("scan")
Main_Scan == Scan("tick")
Main_Tick == Tick("sleep")
Main_Sleep == Sleep("health")
Main_Oversleep == Oversleep("health")

\* (the sleep that lasts into the next hour is left to SpecSch and SpecRestart)
Next ==
    \/ Main_Startup \/ Main_HealthCheck \/ Main_Scan \/ Main_Tick \/ Main_Sleep
    \/ ProcessExit \/ DropFile \/ RemoveFile
    \/ Interrupt \/ HealthCheckInterrupted \/ ScanInterrupted \/ TickInterrupted
    \/ Shutdown

Init == InitMain

Spec == Init /\ [][Next]_vars

\* main() over restarts: started with --no-watchers at the briefing hour
\* while Needs_Action does not exist, interrupted and started again
InitRestart ==
    /\ InitCommon
    /\ no_watchers = TRUE
    /\ script_exists = [n \in Names |-> TRUE]
    /\ inbox_exists = FALSE
    /\ now = [day |-> 0, hour |-> DAILY_BRIEFING_HOUR, min |-> 0]
    /\ weekday0 \in 0..6
    /\ all_ticks = FALSE

NextRestart ==
    \/ Main_Startup \/ Main_HealthCheck \/ Main_Scan \/ Main_Tick \/ Main_Sleep
    \/ Main_Oversleep \/ Interrupt \/ TickInterrupted \/ Shutdown \/ Relaunch

SpecRestart == InitRestart /\ [][NextRestart]_vars

\* main() with --no-watchers in a vault where a router has run before: the
\* persisted Seen-File Set holds the names it routed, and their files have
\* since been moved out of Needs_Action by the skills that handled them
InitGrow ==
    /\ InitBase
    /\ InitCli
    /\ seen_disk \in {[kind |-> "list", names |-> S] : S \in SUBSET {F_ORDERS, F_EMAIL}}
    /\ no_watchers = TRUE
    /\ script_exists = [n \in Names |-> TRUE]
    /\ inbox_exists \in BOOLEAN
    /\ now = Midnight0
    /\ weekday0 = 0
    /\ all_ticks = FALSE

NextGrow ==
    \/ Main_Startup \/ Main_HealthCheck \/ Main_Scan \/ Main_Tick \/ Main_Sleep
    \/ DropFile \/ RemoveFile \/ MakeInbox
    \/ Relaunch

SpecGrow == InitGrow /\ [][NextGrow]_vars

\* main() with --no-watchers in a vault whose persisted Seen-File Set does
\* not parse
InitSeen ==
    /\ InitBase
    /\ InitCli
    /\ seen_disk \in BadSeenFiles
    /\ no_watchers = TRUE
    /\ script_exists = [n \in Names |-> TRUE]
    /\ inbox_exists \in BOOLEAN
    /\ now = Midnight0
    /\ weekday0 = 0
    /\ all_ticks = FALSE

NextSeen ==
    \/ Main_Startup \/ Main_HealthCheck \/ Main_Scan \/ Main_Tick \/ Main_Sleep
    \/ DropFile \/ MakeInbox

SpecSeen == InitSeen /\ [][NextSeen]_vars

\* main() started with any choice of the VAULT_PATH variable and of --vault
VaultChoices == {NoValue, DefaultVault, "D:/Shop_Vault", "D:/Test_Vault"}

InitVault ==
    /\ InitBase
    /\ seen_disk = NoSeenFile
    /\ vault_env \in VaultChoices
    /\ vault_flag \in VaultChoices
    /\ no_watchers = FALSE
    /\ script_exists = [n \in Names |-> TRUE]
    /\ inbox_exists = TRUE
    /\ now = Midnight0
    /\ weekday0 = 0
    /\ all_ticks = FALSE

NextVault ==
    \/ Main_Startup \/ Main_HealthCheck \/ Main_Scan \/ Main_Tick \/ Main_Sleep
    \/ DropFile

SpecVault == InitVault /\ [][NextVault]_vars

\* the day partition shared by the orchestrator and a watcher, found in any
\* condition at the start
OldEntry == LogEntry("Orchestrator", 0)

\* the orchestrator before main() has begun
OrchIdle ==
    /\ pc = "start"
    /\ dry_run = FALSE
    /\ no_watchers = FALSE
    /\ interrupted = FALSE
    /\ runs = 1
    /\ env_events = 0
    /\ script_exists = [n \in Names |-> TRUE]
    /\ processes = [n \in Names |-> 0]
    /\ procs = <<>>
    /\ audit = <<>>
    /\ effects = <<>>
    /\ iterations = 0
    /\ always_exited = [n \in Names |-> TRUE]
    /\ popen_calls = [n \in Names |-> 0]
    /\ inbox_exists = FALSE
    /\ inbox = [n \in FileNames |-> "absent"]
    /\ seen_files = {}
    /\ seen_disk = NoSeenFile
    /\ last_scan = NoScan
    /\ now = Midnight0
    /\ weekday0 = 0
    /\ last_daily = NoDate
    /\ last_ceo = NoDate
    /\ briefings_dir = FALSE
    /\ briefings = {}
    /\ fired = <<>>
    /\ all_ticks = FALSE
    /\ InitCli

InitLog ==
    /\ OrchIdle
    /\ InitWatchers
    /\ log_file \in {NoFile, ListFile(<<>>), ListFile(<<OldEntry>>), TextFile,
                     ObjectFile, BinaryFile}
    /\ appender = [w \in Appenders |-> IdleAppender]
    /\ log_hist = [init |-> log_file, appended |-> <<>>, clean |-> TRUE]

\* the two watchers at work on Needs_Action
InitTask ==
    /\ OrchIdle
    /\ InitWatchers
    /\ log_file = NoFile
    /\ appender = [w \in Appenders |-> IdleAppender]
    /\ log_hist = [init |-> NoFile, appended |-> <<>>, clean |-> TRUE]

\* a watcher constructed with any max_retries and retry_base_delay, making
\* one poll
InitRetry ==
    /\ OrchIdle
    /\ wclock = 0
    /\ task = NoTasks
    /\ stamp = NoStamps
    /\ retry \in {RetryIdle(m, b) : m \in 0..MaxRetries, b \in BaseDelays}
    /\ gw = GwStart(FALSE, {})
    /\ log_file = NoFile
    /\ appender = [w \in Appenders |-> IdleAppender]
    /\ log_hist = [init |-> NoFile, appended |-> <<>>, clean |-> TRUE]

NextRetry == Retry_call \/ Retry_attempt_returns \/ Retry_attempt_raises \/ Retry_wake

SpecRetry == InitRetry /\ [][NextRetry]_vars

\* the mailboxes the watcher is started on
Mailboxes == {mb \in SUBSET MessageIds : Cardinality(mb) \in 1..2}

\* a Gmail watcher started in a new vault, with or without --dry-run
InitGmail ==
    /\ OrchIdle
    /\ wclock = 0
    /\ task = NoTasks
    /\ stamp = NoStamps
    /\ retry = RetryIdle(DEFAULT_MAX_RETRIES, DEFAULT_RETRY_BASE_DELAY)
    /\ gw \in {GwStart(d, mb) : d \in BOOLEAN, mb \in Mailboxes}
    /\ log_file = NoFile
    /\ appender = [w \in Appenders |-> IdleAppender]
    /\ log_hist = [init |-> NoFile, appended |-> <<>>, clean |-> TRUE]

NextGmail ==
    \/ Gw_poll \/ Gw_item \/ Gw_stopped \/ Gw_stopped_in_create \/ Gw_restart
    \/ WatcherClock

SpecGmail == InitGmail /\ [][NextGmail]_vars

NextStamp == write_audit_log_date \/ write_audit_log_entry \/ WatcherClock

\* the orchestrator and a watcher writing audit entries as the clock runs
\* over midnight
SpecStamp == InitTask /\ [][NextStamp]_vars

NextTask == Orders_on_created \/ Gmail_create_action_file \/ WatcherClock

SpecTask == InitTask /\ [][NextTask]_vars

NextLog ==
    \/ Orch_LogCall \/ Orch_LogRead \/ Orch_LogOpen \/ Orch_LogFlush
    \/ Watcher_LogCall \/ Watcher_LogRead \/ Watcher_LogOpen \/ Watcher_LogFlush

SpecLog == InitLog /\ [][NextLog]_vars

\* ------------------------------------------------------------- properties
\* the entries of the partition a with this action_type and target
EntriesOf(a, action_type, target) ==
    {i \in 1..Len(a) : a[i].action_type = action_type /\ a[i].target = target}

\* the processes of this run's WatcherManager for name that have not exited
LiveOf(name) ==
    {pid \in 1..Len(procs) :
        procs[pid].name = name /\ procs[pid].run = runs /\ procs[pid].alive}

\* C1: for every entry of SCRIPTS at most one process launched by the
\* WatcherManager is alive, in every reachable state, so there are never
\* more live watcher processes than entries in SCRIPTS
C1_AtMostOneLive ==
    /\ \A n \in Names : Cardinality(LiveOf(n)) <= 1
    /\ Cardinality({pid \in 1..Len(procs) : procs[pid].run = runs /\ procs[pid].alive})
          <= Len(NameOrder)

\* a watcher that exited has been restarted: its second process is the handle
C1_Witness ==
    \E n \in Names : \E p1, p2 \in 1..Len(procs) :
        /\ p1 < p2
        /\ procs[p1].name = n /\ procs[p2].name = n
        /\ ~procs[p1].alive /\ procs[p2].alive
        /\ processes[n] = p2

\* C2: while a watcher has been found exited by every check_health call, the
\* N calls made so far (all of which returned) have written N watcher_crashed
\* entries for it, each with result restarting and the return code of one of
\* its exited processes, and have made N restart attempts
C2_NoBackoffNoCap ==
    \A n \in Names :
        (~no_watchers /\ always_exited[n] /\ iterations >= 1 /\ pc # "died"
            /\ ~interrupted) =>
            /\ Cardinality(EntriesOf(audit, "watcher_crashed", n)) = iterations
            /\ popen_calls[n] = 1 + iterations
            /\ \A i \in EntriesOf(audit, "watcher_crashed", n) :
                  /\ audit[i].result = "restarting"
                  /\ \E pid \in 1..Len(procs) :
                        /\ procs[pid].name = n /\ ~procs[pid].alive
                        /\ procs[pid].returncode = audit[i].extra.exit_code

\* two passes in a row have found the same watcher exited
C2_Witness ==
    \E n \in Names : ~no_watchers /\ always_exited[n] /\ iterations >= 2 /\ pc = "health"

\* the positions in effects of a launch that failed although its script was there
FailedLaunches == {i \in 1..Len(effects) : effects[i].ev = "popen_fail"}

\* the positions in effects of a start skipped because the script is missing
SkippedStarts == {i \in 1..Len(effects) : effects[i].ev = "skip"}

StartFailedWritten(n) ==
    \E j \in EntriesOf(audit, "watcher_start_failed", n) : audit[j].result = "error"

Routed(a, n) == Cardinality(EntriesOf(a, "file_detected", n))

\* the names a persisted Seen-File Set holds
SeenOn(disk) == IF disk.kind = "list" THEN disk.names ELSE {}

PersistedSeen == SeenOn(seen_disk)

C4_ScanIdempotent ==
    last_scan.repeat =>
        /\ last_scan.entries = <<>>
        /\ seen_files = last_scan.seen_before
        /\ PersistedSeen = SeenOn(last_scan.disk_before)

\* the second of two scans of a listing with a file that the first one routed
C4_Witness ==
    /\ last_scan.repeat
    /\ last_scan.done
    /\ \E n \in FileNames : last_scan.listing[n] = "file" /\ Routed(audit, n) = 1

\* the listing that holds exactly the regular files of S
OnlyFiles(S) == [n \in FileNames |-> IF n \in S THEN "file" ELSE "absent"]

\* a completed scan of the listing OnlyFiles(S) that began with an empty set
FirstScanOf(S) ==
    /\ last_scan.done
    /\ last_scan.listing = OnlyFiles(S)
    /\ last_scan.seen_before = {}

SkillOf(n) ==
    {last_scan.entries[i].extra.skill :
        i \in {j \in 1..Len(last_scan.entries) : last_scan.entries[j].target = n}}

\* C5 as stated: the labels of ORDER_2026-01-01.md and MSG_2026-01-01.md differ
C5_Original ==
    FirstScanOf({F_ORDER, F_MSG}) =>
        /\ {F_ORDER, F_MSG} \subseteq seen_files
        /\ Len(last_scan.entries) = 2
        /\ last_scan.entries[1].extra.skill # last_scan.entries[2].extra.skill

\* C5, amended: with exactly ORDER_2026-01-01.md and MSG_2026-01-01.md in the
\* inbox and an empty Seen-File Set, one completed scan() leaves both names
\* in the Seen-File Set and writes two file_detected entries, one for each
\* name, both with the label unknown; it is ORDERS_2026-01-01.md and
\* EMAIL_2026-01-01.md that get the two labels order-reader and email-responder
C5_Labels ==
    /\ FirstScanOf({F_ORDER, F_MSG}) =>
          /\ {F_ORDER, F_MSG} \subseteq seen_files
          /\ Len(last_scan.entries) = 2
          /\ \A i \in 1..2 : /\ last_scan.entries[i].action_type = "file_detected"
                             /\ last_scan.entries[i].result = "routed"
          /\ SkillOf(F_ORDER) = {"unknown"}
          /\ SkillOf(F_MSG) = {"unknown"}
    /\ FirstScanOf({F_ORDERS, F_EMAIL}) =>
          /\ {F_ORDERS, F_EMAIL} \subseteq seen_files
          /\ Len(last_scan.entries) = 2
          /\ SkillOf(F_ORDERS) = {"order-reader"}
          /\ SkillOf(F_EMAIL) = {"email-responder"}

\* the scan of the two files of the claim has been made
C5_Witness == FirstScanOf({F_ORDER, F_MSG}) /\ pc = "scan"

\* the firings of job in this run
FiringsOf(job) == {i \in 1..Len(fired) : fired[i].job = job /\ fired[i].run = runs}

\* C6: within one run the daily trigger fires only at the configured hour
\* and no two of its firings have the same date
C6_DailyOncePerDay ==
    \A i \in FiringsOf("daily") :
        /\ fired[i].hour = DAILY_BRIEFING_HOUR
        /\ \A j \in FiringsOf("daily") : i # j => fired[i].day # fired[j].day

\* the daily trigger has fired on two days
C6_Witness ==
    \E i, j \in FiringsOf("daily") : fired[i].day # fired[j].day

\* C7: when tick() has been called in every minute of the days 0 to 6, the
\* weekly trigger has fired once in them, at the first minute of the
\* configured hour of the day whose weekday is the configured one; the daily
\* trigger has not fired at that tick; and the daily trigger has fired at the
\* configured hour on each of the other six days
C7_WeekOfTicks ==
    (all_ticks /\ now.day >= 7) =>
        LET week == 0..6
            ceo == {i \in FiringsOf("ceo") : fired[i].day \in week}
            daily == {i \in FiringsOf("daily") : fired[i].day \in week}
        IN  /\ Cardinality(ceo) = 1
            /\ \A i \in ceo :
                  /\ (weekday0 + fired[i].day) % 7 = WEEKLY_CEO_DAY
                  /\ fired[i].hour = DAILY_BRIEFING_HOUR
                  /\ fired[i].min = 0
                  /\ \A j \in daily :
                        <<fired[j].day, fired[j].hour, fired[j].min>>
                           # <<fired[i].day, fired[i].hour, fired[i].min>>
            /\ \A d \in week :
                  (weekday0 + d) % 7 # WEEKLY_CEO_DAY =>
                     \E j \in daily : fired[j].day = d /\ fired[j].hour = DAILY_BRIEFING_HOUR

\* a week of ticks has gone by, with the renderers really run
C7_Witness == all_ticks /\ now.day = 7 /\ ~dry_run /\ Len(fired) >= 8

\* C8 as stated: after a trigger has fired, its last-run marker is the date
\* of its latest firing, whatever became of the job
C8_MarkerAdvanced ==
    /\ \A i \in FiringsOf("daily") :
          (\A j \in FiringsOf("daily") : j <= i) => last_daily = fired[i].day
    /\ \A i \in FiringsOf("ceo") :
          (\A j \in FiringsOf("ceo") : j <= i) => last_ceo = fired[i].day

\* C9 as stated: once the loop has been entered, only the interrupt ends it
C9_OnlyInterruptEndsLoop == pc = "died" => interrupted

\* C11 as stated: with watcher management on and not in dry-run, a
\* check_health pass that completes leaves every entry of SCRIPTS with a
\* handle whose process was alive when the pass began or was launched in
\* the pass
C11_EveryDescriptorHandled ==
    [][(pc = "health" /\ ~no_watchers /\ ~dry_run
           /\ iterations' = iterations + 1 /\ pc' # "died")
          => \A n \in Names :
                /\ processes'[n] # 0
                /\ \/ processes'[n] > Len(procs)
                   \/ procs[processes'[n]].alive]_vars

\* the entries a partition holds for a reader
Held(f) == IF f.kind = "list" THEN f.entries ELSE <<>>

AllIdle == \A w \in Appenders : appender[w].pc = "idle"

\* C12: a write_audit_log call that returns, and during which no other
\* process touched the partition, leaves a JSON array holding the entries
\* the partition held when the call began, in their order, followed by the
\* new entry; and as long as every call has been of that kind the partition
\* holds its first entries followed by the entries of the calls, in the
\* order in which they returned
C12_AppendOnly ==
    /\ \A w \in Appenders :
          LET c == appender[w].last IN
          (c.status = "ok" /\ c.alone) =>
              c.after = ListFile(Held(c.before) \o <<c.entry>>)
    /\ (log_hist.clean /\ AllIdle /\ log_hist.appended # <<>>) =>
          log_file = ListFile(Held(log_hist.init) \o log_hist.appended)

\* calls of the two processes, one after the other, on a partition that
\* held an entry
C12_Witness ==
    /\ log_hist.clean /\ AllIdle
    /\ log_hist.init = ListFile(<<OldEntry>>)
    /\ Len(log_hist.appended) >= 2
    /\ \A w \in Appenders : appender[w].calls >= 1

\* C13: when the latest calls of two processes have both returned without
\* error and both had read the same list, the partition holds that list and
\* the entry of only one of the two
C13_LostUpdate ==
    \A a, b \in Appenders :
        LET ca == appender[a].last
            cb == appender[b].last
        IN  (a # b /\ AllIdle /\ ca.status = "ok" /\ cb.status = "ok" /\ ca.read = cb.read) =>
                \/ log_file = ListFile(ca.read \o <<ca.entry>>)
                \/ log_file = ListFile(ca.read \o <<cb.entry>>)

\* each process has made one call, both calls have returned without error,
\* no call has failed, and the partition holds its first entry and only one
\* of the two new ones
C13_Witness ==
    /\ AllIdle
    /\ log_hist.init = ListFile(<<OldEntry>>)
    /\ \A w \in Appenders : appender[w].calls = 1 /\ appender[w].last.status = "ok"
    /\ Len(log_hist.appended) = 2
    /\ log_file.kind = "list"
    /\ Len(log_file.entries) = 2
    /\ log_file.entries[1] = OldEntry

\* C14: a call that finds text that is not valid JSON in the partition, and
\* during which no other process touches it, reads zero entries, raises
\* nothing but what read_text or write_text raise, and when it returns the
\* partition is a JSON array holding the new entry and nothing else
C14_InvalidJson ==
    \A w \in Appenders :
        LET c == appender[w].last IN
        (c.status # "none" /\ c.before = TextFile /\ c.alone) =>
            /\ c.read = <<>>
            /\ c.status \in {"ok", "OSError"}
            /\ c.status = "ok" => c.after = ListFile(<<c.entry>>)

\* the first call made on a partition of invalid JSON has returned
C14_Witness ==
    /\ log_hist.init = TextFile
    /\ Len(log_hist.appended) = 1
    /\ \E w \in Appenders :
          LET c == appender[w].last IN
          c.status = "ok" /\ c.before = TextFile /\ c.alone /\ log_file = ListFile(<<c.entry>>)

\* the handles of this run's processes as the except block finds them are
\* all signalled: a process launched by this run is signalled or had exited
AllSignalled ==
    \A pid \in 1..Len(procs) :
        procs[pid].run = runs => (procs[pid].signalled \/ ~procs[pid].alive)

\* the terminate events come first in effects and the last event is the
\* write of orchestrator_stopped
StopTrace ==
    /\ effects # <<>>
    /\ effects[Len(effects)] = Ev("audit", "orchestrator.py", "orchestrator_stopped")
    /\ \A i \in 1..(Len(effects) - 1) : effects[i].ev = "terminate"

\* the state the except block leaves when it comes to its end
StoppedRight ==
    /\ interrupted
    /\ \A n \in Names : processes[n] = 0
    /\ AllSignalled
    /\ StopTrace
    /\ Cardinality(EntriesOf(audit, "orchestrator_stopped", "orchestrator.py")) = 1

\* C15: a KeyboardInterrupt raised while the loop runs takes main() to the
\* except block and from there to its end and nowhere else; the block
\* signals every handle and empties the handle set, then writes one
\* orchestrator_stopped entry (the run ends as stopped when that write
\* succeeds), and no check_health, scan or tick runs once the interrupt
\* has been caught
C15_InterruptStops ==
    [][/\ pc' = "stopping" => (pc \in {"health", "scan", "tick", "sleep"} /\ interrupted')
       /\ pc' = "stopped" => (pc = "stopping" /\ StoppedRight')
       /\ interrupted =>
             /\ pc = "stopping" /\ pc' \in {"stopped", "died"}
             /\ iterations' = iterations
             /\ popen_calls' = popen_calls
             /\ last_scan' = last_scan
             /\ seen_files' = seen_files
             /\ fired' = fired
             /\ now' = now]_vars

\* the run has stopped after an interrupt that found two handles
C15_Witness ==
    /\ pc = "stopped"
    /\ iterations >= 1
    /\ Cardinality({i \in 1..Len(effects) : effects[i].ev = "terminate"}) >= 2

\* C16 as stated: an interrupt never leaves a scan with a file_detected
\* entry written and its flush of the Seen-File Set not made
C16_Cooperative ==
    (interrupted /\ last_scan.entries # <<>>) => last_scan.done

Ends == {"stopping", "died"}

\* C17: main() goes from the health check to the scan, from the scan to
\* the tick, from the tick to the sleep and from the sleep to the next
\* health check, unless it leaves the loop; the step from the health check
\* is a check_health pass (nothing with --no-watchers) and does the work of
\* no other handler, the step from the scan is one scan() and the step from
\* the tick one tick(), and the clock moves in the sleep only
C17_StepOrder ==
    [][/\ pc = "health" /\ pc' # pc =>
             /\ pc' \in {"scan"} \cup Ends
             /\ pc' = "scan" => iterations' = iterations + 1
             /\ no_watchers => (procs' = procs /\ audit' = audit)
             /\ last_scan' = last_scan /\ seen_disk' = seen_disk /\ fired' = fired
       /\ pc = "scan" /\ pc' # pc =>
             /\ pc' \in {"tick"} \cup Ends
             /\ pc' = "tick" => last_scan'.done
             /\ procs' = procs /\ popen_calls' = popen_calls /\ fired' = fired
       /\ pc = "tick" /\ pc' # pc =>
             /\ pc' \in {"sleep"} \cup Ends
             /\ procs' = procs /\ popen_calls' = popen_calls
             /\ last_scan' = last_scan /\ seen_disk' = seen_disk
       /\ pc = "sleep" /\ pc' # pc =>
             /\ pc' \in {"health", "stopping"}
             /\ procs' = procs /\ last_scan' = last_scan /\ fired' = fired
       /\ now' # now => (pc = "sleep" /\ pc' = "health")]_vars

\* a whole iteration with watcher management: a health pass over three
\* handles, a scan that routed a file, a tick that fired, and the sleep
C17_Witness ==
    /\ pc = "health"
    /\ ~no_watchers /\ ~dry_run
    /\ iterations = 1
    /\ \A n \in Names : processes[n] # 0
    /\ last_scan.done /\ last_scan.entries # <<>>
    /\ fired # <<>>
    /\ now # [day |-> 0, hour |-> DAILY_BRIEFING_HOUR, min |-> 0]

\* C18: in dry-run no process is launched: no Popen call is made by
\* start_all or check_health, the handle set is empty in every state, and
\* no handler calls subprocess.run, the firing of the daily trigger included
C18_DryRunNoProcess ==
    dry_run =>
        /\ procs = <<>>
        /\ \A n \in Names : processes[n] = 0 /\ popen_calls[n] = 0
        /\ \A i \in 1..Len(effects) :
              effects[i].ev \notin {"popen_ok", "popen_fail", "subprocess_run"}

\* in dry-run with watcher management on, a tick has fired the daily trigger
C18_Witness ==
    /\ dry_run /\ ~no_watchers
    /\ pc = "sleep"
    /\ effects # <<>>
    /\ effects[1] = Ev("fire", "daily", "")
    /\ last_daily = now.day

\* C19 as stated: in dry-run the audit log, the persisted Seen-File Set and
\* the Briefings directory stay as they were at startup
C19_DryRunWritesNothing ==
    dry_run =>
        /\ audit = <<>>
        /\ seen_disk = NoSeenFile
        /\ ~briefings_dir
        /\ briefings = {}

\* job has fired today in an earlier run
FiredBefore(job) ==
    \E i \in 1..Len(fired) :
        fired[i].job = job /\ fired[i].run < runs /\ fired[i].day = now.day

\* the step is the first tick() of a restarted orchestrator, made in the
\* trigger hour, and tick() has come to its end
FirstTickInWindow ==
    /\ pc = "tick" /\ pc' \in {"sleep", "died"}
    /\ runs >= 2 /\ iterations = 1
    /\ now.hour = DAILY_BRIEFING_HOUR

FiresAt(job) ==
    /\ Len(fired') = Len(fired) + 1
    /\ fired'[Len(fired')].job = job
    /\ fired'[Len(fired')].run = runs

\* C20 as stated: the first tick of the new process fires again every
\* trigger that has already fired on that day
C20_Original ==
    [][FirstTickInWindow =>
          \A job \in {"daily", "ceo"} : FiredBefore(job) => FiresAt(job)]_vars

\* C20, amended: when the orchestrator is restarted inside the trigger hour
\* of a day on which a trigger has already fired, the first tick of the new
\* process fires a trigger again: the weekly one when the day is the
\* configured weekday, whether or not the daily one had fired too (the daily
\* one then fires again at the next tick in the hour), the daily one on any
\* other day
C20_Refire ==
    [][(FirstTickInWindow /\ \E job \in {"daily", "ceo"} : FiredBefore(job)) =>
          IF Weekday = WEEKLY_CEO_DAY THEN FiresAt("ceo") ELSE FiresAt("daily")]_vars

\* a trigger has fired twice on one day, in two runs
C20_Witness ==
    \E i, j \in 1..Len(fired) :
        /\ fired[i].run = 1 /\ fired[j].run = 2 /\ runs = 2
        /\ fired[i].job = fired[j].job
        /\ fired[i].day = fired[j].day
        /\ pc = "sleep"

\* the renderer invocation of the tick that ran last could not be launched or
\* ran into its timeout
RendererRaised ==
    \E i \in 1..Len(effects) : effects[i] = Ev("subprocess_run", "daily_summary.py", "raise")

\* C21 as stated: when the renderer times out or cannot be launched, the
\* day partition holds an error-result entry for the daily job, and the
\* daily trigger is not due again on that day
C21_FailureAudited ==
    (pc = "sleep" /\ RendererRaised) =>
        /\ \E i \in 1..Len(audit) :
              audit[i].action_type = "daily_briefing" /\ audit[i].result = "error"
        /\ ~_should_run_daily(Prog)

\* the prefix patterns of the router in their priority order, with the label
\* of each
PrefixTable ==
    << [prefix |-> Str_EMAIL, label |-> "email-responder"],
       [prefix |-> Str_ORDERS, label |-> "order-reader"],
       [prefix |-> Str_NEW_ORDERS, label |-> "order-reader"],
       [prefix |-> Str_LINKEDIN, label |-> "linkedin-poster"],
       [prefix |-> Str_PLAN, label |-> "plan-creator"] >>

\* the label of the first pattern of the table the name starts with
FirstMatch(name) ==
    LET hits == {i \in 1..Len(PrefixTable) : StartsWith(name, PrefixTable[i].prefix)}
    IN  IF hits = {} THEN "unknown"
        ELSE PrefixTable[CHOOSE i \in hits : \A j \in hits : i <= j].label

\* names that meet every pattern, and names that miss one closely: no
\* underscore, lower case, the pattern not at the start, the empty name
RouteNames ==
    FileNames \cup
    { Str_EMAIL, Str_ORDERS \o <<"1">>, Str_NEW_ORDERS \o <<"1">>,
      Str_LINKEDIN \o <<"a">>, Str_PLAN \o <<"a">>,
      Str_ORDERS \o Str_EMAIL, Str_PLAN \o Str_LINKEDIN,
      <<"E", "M", "A", "I", "L">>, <<"e", "m", "a", "i", "l", "_">>,
      <<"X">> \o Str_EMAIL, <<"N", "E", "W", "_">>, <<"P", "L", "A", "N">>,
      <<>> }

\* the regular files the last scan() found that were not in the Seen-File Set
NewFiles ==
    {n \in FileNames : last_scan.listing[n] = "file" /\ n \notin last_scan.seen_before}

\* C22: a scan() that returns has written, for each regular file of the
\* listing that was not in the Seen-File Set, exactly one entry: file_detected
\* with result routed and the label of the first pattern of the table the
\* name starts with, unknown when there is none; it has written no entry for
\* anything else, and the Seen-File Set has grown by those names only, so
\* that an entry that is not a regular file is not in it
C22_ScanRoutes ==
    /\ \A n \in RouteNames : _route(n) = FirstMatch(n)
    /\ last_scan.done =>
          /\ Len(last_scan.entries) = Cardinality(NewFiles)
          /\ \A n \in NewFiles :
                \E i \in 1..Len(last_scan.entries) :
                   last_scan.entries[i] =
                      Entry("file_detected", n, "routed", [skill |-> FirstMatch(n)])
          /\ \A i \in 1..Len(last_scan.entries) : last_scan.entries[i].target \in NewFiles
          /\ seen_files = last_scan.seen_before \cup NewFiles

\* a scan() has returned that found a new regular file and a directory
C22_Witness ==
    /\ last_scan.done
    /\ NewFiles # {}
    /\ \E n \in FileNames : last_scan.listing[n] = "dir" /\ n \notin seen_files
    /\ pc = "scan"

\* C23: no step of main() changes Needs_Action: whatever the listing and
\* the Seen-File Set, the entries of the directory are after scan(), and
\* after every other step of the orchestrator, what they were before it, and
\* what scan() has listed is what is there when it ends.  The directory
\* changes only in steps of its environment, in which main() does nothing
C23_InboxUntouched ==
    [][/\ pc' # pc => (inbox' = inbox /\ inbox_exists' = inbox_exists)
       /\ (pc = "scan" /\ pc' \in {"tick", "died"}) => last_scan'.listing = inbox'
       /\ inbox' # inbox =>
             (pc' = pc /\ audit' = audit /\ effects' = effects /\ seen_files' = seen_files
              /\ seen_disk' = seen_disk /\ env_events' = env_events + 1)]_vars

\* a scan() has returned that routed a file while the Seen-File Set held
\* another name, and the file it routed is still in Needs_Action
C23_Witness ==
    /\ pc = "tick"
    /\ last_scan.done
    /\ last_scan.seen_before # {}
    /\ NewFiles # {}
    /\ \A n \in NewFiles : inbox[n] = "file"

\* the names with a file_detected entry in the day partition
RoutedNames ==
    {audit[i].target : i \in {j \in 1..Len(audit) : audit[j].action_type = "file_detected"}}

\* the step is a scan() that returns
ScanReturns == pc = "scan" /\ pc' = "tick"

\* C24 as stated: a persisted Seen-File Set that does not parse is taken as
\* the empty set by the router's constructor, and the next scan() that
\* returns leaves a valid file with the names routed since
C24_Original ==
    [][/\ pc = "start" => seen_files' = {}
       /\ ScanReturns => seen_disk' = [kind |-> "list", names |-> RoutedNames']]_vars

\* C24, amended: a persisted Seen-File Set that does not parse is taken as
\* the empty set by the router's constructor, and nothing but the write of
\* orchestrator_started can make the startup raise; a scan() that returns
\* and found Needs_Action in place leaves a valid file with exactly the
\* names routed since the startup, while a scan() that found no Needs_Action
\* returns without writing and leaves the file as it was
C24_BadSeenFile ==
    [][/\ pc = "start" =>
             /\ seen_files' = {}
             /\ pc' = "failed" => effects'[Len(effects')].ev = "audit_raise"
       /\ (ScanReturns /\ inbox_exists) =>
             /\ seen_disk' = [kind |-> "list", names |-> RoutedNames']
             /\ seen_files' = RoutedNames'
       /\ (ScanReturns /\ ~inbox_exists) => seen_disk' = seen_disk]_vars

\* the router started on a file that did not parse, and a scan() that
\* routed a file has written the file anew
C24_Witness ==
    /\ pc = "tick"
    /\ last_scan.done
    /\ last_scan.disk_before \in BadSeenFiles
    /\ NewFiles # {}
    /\ seen_disk = [kind |-> "list", names |-> NewFiles]

\* C25 as stated: two distinct items that the watchers have materialised
\* have distinct Task File names, and the Task File of every materialised
\* item is still what that item wrote
C25_UniqueNames ==
    /\ \A a, b \in task.made : a.item # b.item => a.name # b.name
    /\ task.made \subseteq task.files

\* C26 as stated: every entry is in the partition of the day of its own
\* timestamp
C26_PartitionOfTimestamp ==
    \A e \in stamp.partitions : DateOf(e.timestamp) = e.partition

WatcherActions == {"watcher_started", "watcher_crashed", "watcher_start_failed"}

\* C27: with --no-watchers no step of the run launches, polls or relaunches
\* a watcher: the handle set stays empty, no process exists, Popen is never
\* called and no watcher_started, watcher_crashed or watcher_start_failed
\* entry is written; the health step of the loop does nothing; and every
\* iteration still goes from the scan to tick(), which fires the trigger
\* that is due
C27_NoWatchers ==
    [][no_watchers =>
          /\ processes' = [n \in Names |-> 0]
          /\ procs' = <<>>
          /\ popen_calls' = [n \in Names |-> 0]
          /\ \A i \in 1..Len(audit') : audit'[i].action_type \notin WatcherActions
          /\ \A i \in 1..Len(effects') : effects'[i].ev \notin {"popen_ok", "popen_fail", "terminate"}
          /\ (pc = "health" /\ pc' \notin {"health", "stopping"}) =>
                (pc' = "scan" /\ audit' = audit /\ effects' = <<>>)
          /\ (pc = "scan" /\ pc' \notin {"scan", "died", "stopping"}) => pc' = "tick"
          /\ (pc = "tick" /\ pc' \notin {"stopping"}) =>
                /\ pc' \in {"sleep", "died"}
                /\ (_should_run_ceo(Prog) \/ _should_run_daily(Prog))
                      => Len(fired') = Len(fired) + 1
          /\ pc = "sleep" => pc' \in {"health", "stopping"}]_vars

\* a run with --no-watchers, not dry-run, is in its second iteration and
\* both triggers have fired
C27_Witness ==
    /\ no_watchers /\ ~dry_run
    /\ iterations = 2
    /\ pc = "sleep"
    /\ Len(fired) = 2
    /\ audit # <<>>

\* C28 as stated: once main() has parsed its arguments, the inbox the router
\* scans, the directory of the audit log and of the Seen-File Set, and the
\* VAULT_PATH given to the watchers are those of the vault root args.vault
C28_VaultFlag ==
    pc # "start" =>
        /\ NEEDS_ACTION = Join(args_vault, "Needs_Action")
        /\ LOGS_DIR = Join(args_vault, "Logs")
        /\ _seen_file = Join(Join(args_vault, "Logs"), "orchestrator_seen_files.json")
        /\ Popen_env_VAULT_PATH = args_vault

\* the positions in the trace of the poll of the calls of check_for_updates
CallsMade == {p \in 1..Len(retry.events) : retry.events[p].ev \in {"call_ok", "call_raise"}}
CallsRaised == {p \in CallsMade : retry.events[p].ev = "call_raise"}
CallsReturned == {p \in CallsMade : retry.events[p].ev = "call_ok"}

\* _check_with_retry has ended
PollEnded == retry.pc \in {"returned", "raised"}

\* at most max_retries calls are made, and the first call that does not raise
\* is the last thing the poll does: its list is what the poll returns
StopsAtSuccess ==
    /\ Cardinality(CallsMade) <= retry.max_retries
    /\ \A p \in CallsReturned :
          /\ p = Len(retry.events)
          /\ retry.pc = "returned"
          /\ retry.result = retry.events[p].items
          /\ retry.entries = <<>>

\* one check_failed entry with result error and attempts = max_retries
OneCheckFailed ==
    retry.entries =
        << [action_type |-> "check_failed", actor |-> "GmailWatcher",
            target |-> "external_source", result |-> "error",
            extra |-> [attempts |-> retry.max_retries]] >>

\* C29 as stated: at most max_retries calls, the first that does not raise
\* ends the poll with its result, and a poll in which all max_retries calls
\* have raised has written one check_failed entry and has returned the empty
\* list without raising
C29_Original ==
    /\ StopsAtSuccess
    /\ (PollEnded /\ CallsReturned = {} /\ Cardinality(CallsRaised) = retry.max_retries) =>
          /\ retry.pc = "returned"
          /\ retry.result = <<>>
          /\ OneCheckFailed

\* C29, amended: at most max_retries calls are made and the first that does
\* not raise ends the poll with its result.  A poll that ends without such a
\* call has made max_retries calls, all of which raised, and with
\* max_retries >= 1 it has gone on to write the check_failed entry: when
\* that write succeeds, the entry (result error, attempts = max_retries) is
\* the one entry of the poll and the empty list is returned; when that write
\* raises, nothing is written and the exception leaves _check_with_retry.
\* With max_retries = 0 no call is made, nothing is written, and the empty
\* list is returned.  No entry is written at any other point.
C29_Retry ==
    /\ StopsAtSuccess
    /\ ~PollEnded => retry.entries = <<>>
    /\ (PollEnded /\ CallsReturned = {}) =>
          /\ Cardinality(CallsRaised) = retry.max_retries
          /\ IF retry.max_retries = 0
             THEN retry.pc = "returned" /\ retry.result = <<>> /\ retry.entries = <<>>
             ELSE IF retry.pc = "returned"
                  THEN retry.result = <<>> /\ OneCheckFailed
                  ELSE /\ retry.entries = <<>>
                       /\ retry.events[Len(retry.events)].ev = "audit_raise"

\* every call of a poll with max_retries = 3 has raised and the poll has
\* returned
C29_Witness ==
    /\ retry.max_retries = 3
    /\ retry.pc = "returned"
    /\ Cardinality(CallsRaised) = 3
    /\ Len(retry.entries) = 1

\* min(base * 2^k, 60), with 2^k counted as the number of subsets of a set of
\* k elements
ExpectedWait(base, k) ==
    LET d == base * Cardinality(SUBSET (1..k))
    IN  IF d <= 60 THEN d ELSE 60

\* the number of the attempt (from 0) whose failure is at position p
AttemptAt(p) == Cardinality({q \in CallsRaised : q < p})

\* the waits of the poll, in order
WaitsOf(events) ==
    SelectSeq(events, LAMBDA e : e.ev = "sleep")

\* C30: for a watcher constructed with a positive retry_base_delay, every
\* wait of a poll directly follows the failure of an attempt k that is not
\* the last one (k < max_retries - 1), lasts min(retry_base_delay * 2^k, 60)
\* seconds, and is followed by the next attempt; every such failure is
\* followed by its wait; nothing follows the failure of the last attempt
\* but the audit write, and nothing follows a call that returned.  With the
\* defaults 3 and 5 a poll in which every attempt failed has waited 5 and
\* then 10.
C30_Backoff ==
    /\ \A p \in 1..Len(retry.events) :
          retry.events[p].ev = "sleep" =>
             /\ p - 1 \in CallsRaised
             /\ AttemptAt(p - 1) < retry.max_retries - 1
             /\ retry.events[p].delay =
                   ExpectedWait(retry.retry_base_delay, AttemptAt(p - 1))
             /\ IF p = Len(retry.events) THEN retry.pc \in {"sleep", "try"}
                ELSE p + 1 \in CallsMade
    /\ \A p \in CallsRaised :
          IF AttemptAt(p) < retry.max_retries - 1
          THEN p < Len(retry.events) /\ retry.events[p + 1].ev = "sleep"
          ELSE \A q \in (p + 1)..Len(retry.events) :
                  retry.events[q].ev \in {"audit", "audit_raise"}
    /\ \A p \in CallsReturned : p = Len(retry.events)
    /\ retry.pc = "sleep" => retry.events[Len(retry.events)].ev = "sleep"
    /\ ( /\ retry.max_retries = 3
         /\ retry.retry_base_delay = 5
         /\ Cardinality(CallsRaised) = 3 ) =>
            /\ Len(WaitsOf(retry.events)) = 2
            /\ WaitsOf(retry.events)[1].delay = 5
            /\ WaitsOf(retry.events)[2].delay = 10

\* a poll that has waited the capped 60 seconds after its second failure,
\* the first wait having been shorter
C30_Witness ==
    /\ Len(WaitsOf(retry.events)) = 2
    /\ WaitsOf(retry.events)[1].delay < 60
    /\ WaitsOf(retry.events)[2].delay = 60
    /\ retry.retry_base_delay * 2 > 60

\* a check_health pass has run and returned
HealthPassReturns ==
    /\ pc = "health"
    /\ iterations' = iterations + 1
    /\ pc' \notin {"died", "stopping"}

\* the launch of name failed in the handler that ran last
LaunchFailed(eff, name) ==
    \E i \in 1..Len(eff) : eff[i].ev = "popen_fail" /\ eff[i].target = name

\* C36: in every check_health pass that returns, each watcher whose recorded
\* handle has exited gets one more watcher_crashed entry and one more launch
\* attempt; when that launch fails the same exited handle stays recorded
\* (so the next pass finds it exited again), and when it succeeds the new
\* live process is the handle.  The handle of a watcher is never dropped.
C36_FailedRelaunchRetried ==
    [][HealthPassReturns /\ ~no_watchers =>
          \A n \in Names :
             IF processes[n] # 0 /\ ~procs[processes[n]].alive
             THEN /\ Cardinality(EntriesOf(audit', "watcher_crashed", n))
                        = Cardinality(EntriesOf(audit, "watcher_crashed", n)) + 1
                  /\ popen_calls'[n] = popen_calls[n] + 1
                  /\ IF LaunchFailed(effects', n)
                     THEN /\ processes'[n] = processes[n]
                          /\ ~procs'[processes'[n]].alive
                          /\ Len(procs') >= Len(procs)
                     ELSE /\ processes'[n] > Len(procs)
                          /\ procs'[processes'[n]].name = n
                          /\ procs'[processes'[n]].alive
             ELSE /\ processes'[n] = processes[n]
                  /\ popen_calls'[n] = popen_calls[n]
                  /\ EntriesOf(audit', "watcher_crashed", n)
                        = EntriesOf(audit, "watcher_crashed", n)]_vars

\* a watcher whose first relaunch failed has been found exited again by the
\* next pass and is running after its second relaunch
C36_Witness ==
    \E n \in Names : \E i, j, k \in 1..Len(audit) :
        /\ i < j /\ j < k
        /\ audit[i].action_type = "watcher_crashed" /\ audit[i].target = n
        /\ audit[j].action_type = "watcher_start_failed" /\ audit[j].target = n
        /\ audit[j].extra = [error |-> "popen"]
        /\ audit[k].action_type = "watcher_crashed" /\ audit[k].target = n
        /\ processes[n] # 0
        /\ procs[processes[n]].alive
        /\ popen_calls[n] = 3

\* the firings of job in this run on day d
FiringsOn(job, d) == {i \in FiringsOf(job) : fired[i].day = d}

\* C34: when tick() has been called in every minute of the days 0 to 6 (at
\* least two minutes in the hour), the daily trigger has fired once on each
\* of the seven days, at the configured hour, and the weekly trigger once:
\* seven daily firings and one weekly.  On the weekly day the weekly trigger
\* fires at the first tick of the hour, the daily trigger does not fire at
\* that tick and fires at the very next tick, in the same hour; on the other
\* days the daily trigger fires at the first tick of the hour.
C34_DailyOnWeeklyDay ==
    (all_ticks /\ now.day >= 7) =>
        LET week == 0..6
            ceo == UNION {FiringsOn("ceo", d) : d \in week}
            daily == UNION {FiringsOn("daily", d) : d \in week}
        IN  /\ Cardinality(daily) = 7
            /\ Cardinality(ceo) = 1
            /\ \A d \in week :
                  /\ Cardinality(FiringsOn("daily", d)) = 1
                  /\ \A j \in FiringsOn("daily", d) :
                        /\ fired[j].hour = DAILY_BRIEFING_HOUR
                        /\ IF (weekday0 + d) % 7 = WEEKLY_CEO_DAY
                           THEN /\ j - 1 \in FiringsOn("ceo", d)
                                /\ fired[j - 1].hour = DAILY_BRIEFING_HOUR
                                /\ fired[j - 1].min = 0
                                /\ fired[j].min = 1
                           ELSE /\ FiringsOn("ceo", d) = {}
                                /\ fired[j].min = 0

\* a week of ticks in which the daily briefing has followed the weekly one
\* by one tick
C34_Witness ==
    /\ all_ticks /\ now.day = 7
    /\ \E j \in FiringsOf("daily") :
          /\ j > 1
          /\ fired[j - 1].job = "ceo"
          /\ fired[j - 1].day = fired[j].day
          /\ fired[j].min = fired[j - 1].min + 1
    /\ Cardinality(FiringsOf("daily")) = 7

\* C35 as stated: when main() has ended, after an interrupt or with an
\* exception raised in the loop, every watcher process launched by the run
\* has been signalled by terminate() or had exited by itself
C35_NoWatcherLeftRunning ==
    pc \in {"stopped", "died"} =>
        \A pid \in 1..Len(procs) :
            (procs[pid].run = runs /\ procs[pid].alive) => procs[pid].signalled

MadeByGmail == {f \in task.made : f.name.id # <<>>}
MadeByOrders == {f \in task.made : f.name.stem # <<>>}

\* C38: every task file the Gmail watcher has made for a message has a
\* name that the router's _route sends to email-responder, every task file
\* the orders watcher has made for a dropped order file has a name it sends
\* to order-reader, and no name a watcher has made goes to unknown (the
\* approval watcher writes nothing into Needs_Action)
C38_PrefixVocabulary ==
    /\ task.made = MadeByGmail \cup MadeByOrders
    /\ \A f \in MadeByGmail : _route(NameText(f.name)) = "email-responder"
    /\ \A f \in MadeByOrders : _route(NameText(f.name)) = "order-reader"
    /\ \A f \in task.made : _route(NameText(f.name)) # "unknown"

\* both watchers have made task files, the orders watcher for a .csv and
\* for a .CSV source
C38_Witness ==
    /\ MadeByGmail # {}
    /\ \E f, g \in MadeByOrders : f.item.suffix = ".csv" /\ g.item.suffix = ".CSV"

\* the events of the present iteration of run() for the item id
EventsFor(id, evs) ==
    {p \in 1..Len(gw.trace) : gw.trace[p].item = id /\ gw.trace[p].ev \in evs}

\* create_action_file has been called for id in this iteration
Attempted(id) == EventsFor(id, {"create_ok", "create_raise"}) # {}

\* the audit entries the iteration has written for id
ItemEntries(id) == EventsFor(id, {"action_file_created", "action_file_failed"})

\* an iteration of run() that had items has come to its sleep
BatchEnded == gw.pc = "idle" /\ gw.items # <<>>

\* an exception has left the for loop
LoopLeft == \E p \in 1..Len(gw.trace) : gw.trace[p].ev = "loop_left"

\* id has been attempted and has its one entry: action_file_created when
\* create_action_file returned and the write of the entry succeeded,
\* action_file_failed otherwise
OneEntry(id) ==
    /\ Attempted(id)
    /\ Cardinality(ItemEntries(id)) = 1
    /\ IF EventsFor(id, {"create_raise", "audit_raise"}) = {}
       THEN EventsFor(id, {"action_file_created"}) # {}
       ELSE EventsFor(id, {"action_file_failed"}) # {}

\* C31 as stated: when an iteration of run() has ended, every item the poll
\* returned has been attempted and has exactly one audit entry
C31_Original ==
    BatchEnded =>
        \A i \in 1..Len(gw.items) :
            Attempted(gw.items[i]) /\ Cardinality(ItemEntries(gw.items[i])) = 1

\* C31, amended: the items are attempted in the order of the poll, and an
\* item whose create_action_file (or whose action_file_created write)
\* failed is followed by the next one as long as the write of its
\* action_file_failed entry succeeded: every item the loop has passed has
\* exactly one entry, created or failed, and an iteration that ends without
\* an exception leaving the loop has attempted every item.  When the write
\* of action_file_failed raises, the exception leaves the loop: that item
\* has no entry and the items after it are not attempted in this iteration.
C31_Batch ==
    gw.pc \in {"idle", "batch"} /\ gw.items # <<>> =>
        /\ \A i \in 1..Len(gw.items) :
              IF i < gw.next THEN OneEntry(gw.items[i])
              ELSE IF i = gw.next /\ LoopLeft
              THEN /\ Attempted(gw.items[i])
                   /\ ItemEntries(gw.items[i]) = {}
                   /\ gw.trace[Len(gw.trace) - 1] = GwEv("audit_raise", gw.items[i])
              ELSE ~Attempted(gw.items[i]) /\ ItemEntries(gw.items[i]) = {}
        /\ (BatchEnded /\ ~LoopLeft) => gw.next = Len(gw.items) + 1
        /\ gw.pc = "batch" => (~LoopLeft /\ gw.next <= Len(gw.items))

\* an iteration has ended in which create_action_file failed for the first
\* of two items and the second was materialised all the same
C31_Witness ==
    /\ BatchEnded
    /\ Len(gw.items) = 2
    /\ EventsFor(gw.items[1], {"create_raise"}) # {}
    /\ EventsFor(gw.items[1], {"action_file_failed"}) # {}
    /\ EventsFor(gw.items[2], {"action_file_created"}) # {}

\* ---- C32
\* the task files in the inbox that hold the message id
TaskFilesOf(id) == {f \in task.files : f.item = id}

\* C32: a Gmail message is materialised into at most one task file, over any
\* sequence of polls, stops and restarts of the watcher: the inbox never
\* holds two task files for one message id.
C32_AtMostOneTaskFile ==
    \A id \in MessageIds : Cardinality(TaskFilesOf(id)) <= 1

\* ---- C33
\* the action_file_created entries of the audit log
CreatedEntries ==
    {gw.audit[i] : i \in {j \in 1..Len(gw.audit) : gw.audit[j].action_type = "action_file_created"}}

\* C33: every action_file_created audit entry names a task file that was
\* written to the inbox, in dry-run mode as well.
C33_CreatedEntryNamesWrittenFile ==
    \A e \in CreatedEntries : \E f \in task.made : f.name = e.target

====
